---- MODULE Spec2Model ----
(***************************************************************************)
(* Devil Run (side-scrolling platformer): the level manager, the player    *)
(* controller and the hazard state machines, as state machines.            *)
(*                                                                         *)
(* Units.  Rectangles are pygame.Rect values: integer x, y, w, h.          *)
(* Velocities are floats that are always multiples of 0.1 in the source;   *)
(* they are kept here in TENTHS of a pixel per frame (JUMP_FORCE -22 is    *)
(* -220, GRAVITY 0.8 is 8, JUMP_FORCE * 0.85 = -18.7 is -187).  Times are  *)
(* floats in seconds obtained from clock.tick(FPS) / 1000.0, that is from  *)
(* an integer number of milliseconds; they are kept here in MILLISECONDS   *)
(* (COYOTE_TIME 0.15 is 150).  Speeds of oscillators and axes (radians per *)
(* second) are kept in tenths.                                             *)
(***************************************************************************)
EXTENDS Integers, Sequences, FiniteSets, TLC

(***************************************************************************)
(* config.py                                                               *)
(***************************************************************************)
SCREEN_WIDTH == 960
SCREEN_HEIGHT == 700
TILE_SIZE == 40
LEVEL_SCROLL_LENGTH == 4
PLAYER_SPEED == 80
JUMP_FORCE == -220
GRAVITY == 8
MAX_FALL_SPEED == 140
COYOTE_TIME == 150
JUMP_BUFFER_TIME == 150
DEFAULT_LEVEL_ID == 1

(***************************************************************************)
(* level_manager.py, module constants                                      *)
(***************************************************************************)
TILE == TILE_SIZE
GROUND_Y == SCREEN_HEIGHT - TILE
LEVEL_LENGTH == SCREEN_WIDTH * LEVEL_SCROLL_LENGTH

(***************************************************************************)
(* Bounds of the model (not program constants).                            *)
(***************************************************************************)
\* load_level is called with every index in -MaxIndex .. MaxIndex
MaxIndex == 15
\* the attempt counter is explored up to MaxAttempts
MaxAttempts == 8
\* the player is followed while its left edge is at most MaxX; SpecPlayer
\* (every key) keeps to the first MaxFreeX pixels
MaxX == 520
MaxFreeX == 88

\* Frame durations in milliseconds (clock.tick(60) returns an integer number
\* of milliseconds: about 17 at full speed, more when a frame is late).
FrameTimes == {50, 100, 150}
\* SpecPlayer runs at a steady 20 frames per second
SteadyFrameTimes == {50}

None == "None"

Max(a, b) == IF a >= b THEN a ELSE b
Min(a, b) == IF a <= b THEN a ELSE b

\* Python's int() on a float kept in tenths: truncation toward zero.
int10(v) == IF v >= 0 THEN v \div 10 ELSE -((-v) \div 10)

(***************************************************************************)
(* pygame.Rect                                                             *)
(***************************************************************************)
Rect(x, y, w, h) == [x |-> x, y |-> y, w |-> w, h |-> h]
left(r) == r.x
right(r) == r.x + r.w
top(r) == r.y
bottom(r) == r.y + r.h
centerx(r) == r.x + (r.w \div 2)
centery(r) == r.y + (r.h \div 2)

\* Rect.colliderect: the interiors overlap; rectangles that only share an
\* edge, and rectangles of zero width or height, do not collide.
colliderect(a, b) ==
  /\ a.w > 0 /\ a.h > 0 /\ b.w > 0 /\ b.h > 0
  /\ a.x < b.x + b.w /\ b.x < a.x + a.w
  /\ a.y < b.y + b.h /\ b.y < a.y + a.h

(***************************************************************************)
(* LEVEL_BLUEPRINTS (level_manager.py): 12 levels and the boss level.      *)
(* R(x, y, w, h) of the source is already applied: rectangles are in       *)
(* pixels.  Oscillator and axe speeds are in tenths, chaser max_time is in *)
(* milliseconds.  Every entry of the source gives every key, so the        *)
(* defaults of the .get() calls of load_level are never used.              *)
(***************************************************************************)
Blueprint1 ==
  [ id |-> 1,
    name |-> "Level 1: The Descent",
    spawn |-> <<80, 580>>,
    goal |-> [x |-> 3000, y |-> 580, w |-> 80, h |-> 120],
    platforms |-> << [x |-> 0, y |-> 620, w |-> 400, h |-> 40],
                   [x |-> 480, y |-> 540, w |-> 120, h |-> 40],
                   [x |-> 720, y |-> 460, w |-> 120, h |-> 40],
                   [x |-> 960, y |-> 380, w |-> 200, h |-> 40],
                   [x |-> 1400, y |-> 500, w |-> 200, h |-> 40],
                   [x |-> 1800, y |-> 580, w |-> 400, h |-> 40],
                   [x |-> 2400, y |-> 620, w |-> 600, h |-> 40] >>,
    static_traps |-> << [x |-> 400, y |-> 620, w |-> 80, h |-> 40],
                      [x |-> 1200, y |-> 620, w |-> 200, h |-> 40],
                      [x |-> 2200, y |-> 620, w |-> 200, h |-> 40] >>,
    oscillators |-> << [rect |-> [x |-> 1600, y |-> 420, w |-> 80, h |-> 40], axis |-> "y", amplitude |-> 100, speed |-> 30],
                     [rect |-> [x |-> 600, y |-> 460, w |-> 80, h |-> 40], axis |-> "x", amplitude |-> 60, speed |-> 25] >>,
    triggers |-> << [trigger |-> [x |-> 960, y |-> 340, w |-> 80, h |-> 80], spike |-> [x |-> 1040, y |-> 380, w |-> 40, h |-> 40]],
                  [trigger |-> [x |-> 2720, y |-> 580, w |-> 80, h |-> 80], spike |-> [x |-> 2800, y |-> 620, w |-> 40, h |-> 40]] >>,
    axes |-> << [pivot |-> <<1200, 260>>, length |-> 120, swing_degrees |-> 60, speed |-> 15],
              [pivot |-> <<2000, 340>>, length |-> 100, swing_degrees |-> 45, speed |-> 20] >>,
    chasers |-> << [spawn |-> <<1800, 340>>, speed |-> 100, max_time |-> 3000],
                 [spawn |-> <<2600, 460>>, speed |-> 120, max_time |-> 4000] >>,
    disappear |-> << [trigger |-> [x |-> 1400, y |-> 460, w |-> 80, h |-> 80], platform |-> [x |-> 1400, y |-> 500, w |-> 200, h |-> 40]] >>,
    crushers |-> << [rect |-> [x |-> 2000, y |-> 180, w |-> 80, h |-> 80], slam_height |-> 380],
                  [rect |-> [x |-> 400, y |-> 260, w |-> 80, h |-> 80], slam_height |-> 300] >> ]

Blueprint2 ==
  [ id |-> 2,
    name |-> "Level 2: The Grinder",
    spawn |-> <<80, 580>>,
    goal |-> [x |-> 3400, y |-> 340, w |-> 80, h |-> 120],
    platforms |-> << [x |-> 0, y |-> 620, w |-> 400, h |-> 40],
                   [x |-> 600, y |-> 540, w |-> 200, h |-> 40],
                   [x |-> 1000, y |-> 460, w |-> 160, h |-> 40],
                   [x |-> 1400, y |-> 380, w |-> 160, h |-> 40],
                   [x |-> 1800, y |-> 620, w |-> 600, h |-> 40],
                   [x |-> 2600, y |-> 500, w |-> 200, h |-> 40],
                   [x |-> 3000, y |-> 420, w |-> 480, h |-> 40] >>,
    static_traps |-> << [x |-> 400, y |-> 620, w |-> 1400, h |-> 40],
                      [x |-> 2400, y |-> 620, w |-> 600, h |-> 40] >>,
    oscillators |-> << [rect |-> [x |-> 800, y |-> 500, w |-> 80, h |-> 40], axis |-> "y", amplitude |-> 80, speed |-> 40],
                     [rect |-> [x |-> 1600, y |-> 420, w |-> 80, h |-> 40], axis |-> "x", amplitude |-> 120, speed |-> 25] >>,
    triggers |-> << [trigger |-> [x |-> 1800, y |-> 580, w |-> 200, h |-> 80], spike |-> [x |-> 1880, y |-> 580, w |-> 40, h |-> 40]],
                  [trigger |-> [x |-> 3000, y |-> 380, w |-> 120, h |-> 80], spike |-> [x |-> 3120, y |-> 420, w |-> 40, h |-> 40]] >>,
    axes |-> << [pivot |-> <<2200, 260>>, length |-> 150, swing_degrees |-> 90, speed |-> 20],
              [pivot |-> <<1400, 180>>, length |-> 120, swing_degrees |-> 60, speed |-> 25] >>,
    chasers |-> << [spawn |-> <<2800, 380>>, speed |-> 180, max_time |-> 3000],
                 [spawn |-> <<400, 420>>, speed |-> 150, max_time |-> 5000] >>,
    disappear |-> << [trigger |-> [x |-> 1000, y |-> 420, w |-> 80, h |-> 80], platform |-> [x |-> 1000, y |-> 460, w |-> 160, h |-> 40]] >>,
    crushers |-> << [rect |-> [x |-> 1200, y |-> 180, w |-> 120, h |-> 80], slam_height |-> 380],
                  [rect |-> [x |-> 2000, y |-> 180, w |-> 80, h |-> 80], slam_height |-> 400],
                  [rect |-> [x |-> 3200, y |-> 260, w |-> 80, h |-> 80], slam_height |-> 200] >> ]

Blueprint3 ==
  [ id |-> 3,
    name |-> "Level 3: Trust Issues",
    spawn |-> <<80, 580>>,
    goal |-> [x |-> 4000, y |-> 620, w |-> 120, h |-> 120],
    platforms |-> << [x |-> 0, y |-> 620, w |-> 600, h |-> 40],
                   [x |-> 800, y |-> 540, w |-> 400, h |-> 40],
                   [x |-> 1600, y |-> 460, w |-> 400, h |-> 40],
                   [x |-> 2400, y |-> 540, w |-> 400, h |-> 40],
                   [x |-> 3200, y |-> 620, w |-> 800, h |-> 40] >>,
    static_traps |-> << [x |-> 600, y |-> 620, w |-> 200, h |-> 40],
                      [x |-> 1200, y |-> 620, w |-> 400, h |-> 40],
                      [x |-> 2000, y |-> 620, w |-> 400, h |-> 40],
                      [x |-> 2800, y |-> 620, w |-> 400, h |-> 40] >>,
    oscillators |-> << [rect |-> [x |-> 1000, y |-> 420, w |-> 80, h |-> 40], axis |-> "y", amplitude |-> 120, speed |-> 35],
                     [rect |-> [x |-> 2200, y |-> 500, w |-> 80, h |-> 40], axis |-> "x", amplitude |-> 80, speed |-> 22] >>,
    triggers |-> << [trigger |-> [x |-> 1600, y |-> 420, w |-> 120, h |-> 80], spike |-> [x |-> 1720, y |-> 460, w |-> 40, h |-> 40]],
                  [trigger |-> [x |-> 3400, y |-> 580, w |-> 120, h |-> 80], spike |-> [x |-> 3520, y |-> 620, w |-> 40, h |-> 40]],
                  [trigger |-> [x |-> 400, y |-> 540, w |-> 80, h |-> 80], spike |-> [x |-> 480, y |-> 620, w |-> 40, h |-> 40]] >>,
    axes |-> << [pivot |-> <<2000, 260>>, length |-> 140, swing_degrees |-> 80, speed |-> 20],
              [pivot |-> <<3000, 180>>, length |-> 120, swing_degrees |-> 60, speed |-> 25] >>,
    chasers |-> << [spawn |-> <<800, 260>>, speed |-> 120, max_time |-> 3000],
                 [spawn |-> <<3600, 460>>, speed |-> 150, max_time |-> 4000] >>,
    disappear |-> << [trigger |-> [x |-> 1600, y |-> 660, w |-> 400, h |-> 400], platform |-> [x |-> 1600, y |-> 460, w |-> 400, h |-> 40]],
                   [trigger |-> [x |-> 2400, y |-> 660, w |-> 400, h |-> 400], platform |-> [x |-> 2400, y |-> 540, w |-> 400, h |-> 40]] >>,
    crushers |-> << [rect |-> [x |-> 400, y |-> 180, w |-> 80, h |-> 80], slam_height |-> 400] >> ]

Blueprint4 ==
  [ id |-> 4,
    name |-> "Level 4: The Gauntlet",
    spawn |-> <<80, 580>>,
    goal |-> [x |-> 5200, y |-> 580, w |-> 80, h |-> 120],
    platforms |-> << [x |-> 0, y |-> 620, w |-> 400, h |-> 40],
                   [x |-> 1000, y |-> 380, w |-> 240, h |-> 40],
                   [x |-> 2000, y |-> 420, w |-> 1400, h |-> 40],
                   [x |-> 3800, y |-> 540, w |-> 480, h |-> 40],
                   [x |-> 4600, y |-> 620, w |-> 800, h |-> 40] >>,
    static_traps |-> << [x |-> 400, y |-> 620, w |-> 200, h |-> 40],
                      [x |-> 1640, y |-> 620, w |-> 360, h |-> 40],
                      [x |-> 3400, y |-> 420, w |-> 400, h |-> 40],
                      [x |-> 4280, y |-> 540, w |-> 320, h |-> 40] >>,
    oscillators |-> << [rect |-> [x |-> 800, y |-> 340, w |-> 80, h |-> 40], axis |-> "y", amplitude |-> 60, speed |-> 50],
                     [rect |-> [x |-> 2800, y |-> 260, w |-> 80, h |-> 40], axis |-> "y", amplitude |-> 80, speed |-> 40],
                     [rect |-> [x |-> 4200, y |-> 460, w |-> 80, h |-> 40], axis |-> "x", amplitude |-> 100, speed |-> 30] >>,
    triggers |-> << [trigger |-> [x |-> 2000, y |-> 380, w |-> 80, h |-> 80], spike |-> [x |-> 2080, y |-> 420, w |-> 40, h |-> 40]],
                  [trigger |-> [x |-> 2600, y |-> 380, w |-> 80, h |-> 80], spike |-> [x |-> 2680, y |-> 420, w |-> 40, h |-> 40]],
                  [trigger |-> [x |-> 3200, y |-> 380, w |-> 80, h |-> 80], spike |-> [x |-> 3280, y |-> 420, w |-> 40, h |-> 40]],
                  [trigger |-> [x |-> 4400, y |-> 580, w |-> 80, h |-> 80], spike |-> [x |-> 4480, y |-> 620, w |-> 40, h |-> 40]] >>,
    axes |-> << [pivot |-> <<1800, 140>>, length |-> 160, swing_degrees |-> 80, speed |-> 25],
              [pivot |-> <<3600, 220>>, length |-> 140, swing_degrees |-> 60, speed |-> 30],
              [pivot |-> <<4800, 260>>, length |-> 120, swing_degrees |-> 90, speed |-> 35] >>,
    chasers |-> << [spawn |-> <<2200, 180>>, speed |-> 220, max_time |-> 4000],
                 [spawn |-> <<4000, 420>>, speed |-> 240, max_time |-> 3000],
                 [spawn |-> <<800, 460>>, speed |-> 200, max_time |-> 4000],
                 [spawn |-> <<5000, 340>>, speed |-> 260, max_time |-> 5000] >>,
    disappear |-> << [trigger |-> [x |-> 480, y |-> 500, w |-> 120, h |-> 80], platform |-> [x |-> 600, y |-> 500, w |-> 240, h |-> 40]],
                   [trigger |-> [x |-> 1280, y |-> 300, w |-> 120, h |-> 80], platform |-> [x |-> 1400, y |-> 300, w |-> 240, h |-> 40]] >>,
    crushers |-> << [rect |-> [x |-> 2400, y |-> 20, w |-> 80, h |-> 80], slam_height |-> 550],
                  [rect |-> [x |-> 3000, y |-> 20, w |-> 80, h |-> 80], slam_height |-> 550],
                  [rect |-> [x |-> 3800, y |-> 100, w |-> 80, h |-> 80], slam_height |-> 400] >> ]

Blueprint5 ==
  [ id |-> 5,
    name |-> "Level 5: Crushing Depths",
    spawn |-> <<80, 580>>,
    goal |-> [x |-> 4400, y |-> 620, w |-> 120, h |-> 200],
    platforms |-> << [x |-> 0, y |-> 620, w |-> 400, h |-> 40],
                   [x |-> 600, y |-> 540, w |-> 320, h |-> 40],
                   [x |-> 1120, y |-> 420, w |-> 320, h |-> 40],
                   [x |-> 1680, y |-> 300, w |-> 320, h |-> 40],
                   [x |-> 2200, y |-> 420, w |-> 320, h |-> 40],
                   [x |-> 2800, y |-> 540, w |-> 320, h |-> 40],
                   [x |-> 3400, y |-> 620, w |-> 1200, h |-> 40] >>,
    static_traps |-> << [x |-> 400, y |-> 620, w |-> 200, h |-> 40],
                      [x |-> 920, y |-> 620, w |-> 200, h |-> 40],
                      [x |-> 1440, y |-> 620, w |-> 240, h |-> 40],
                      [x |-> 2000, y |-> 620, w |-> 200, h |-> 40],
                      [x |-> 2520, y |-> 620, w |-> 280, h |-> 40],
                      [x |-> 3120, y |-> 620, w |-> 280, h |-> 40] >>,
    oscillators |-> << [rect |-> [x |-> 1120, y |-> 340, w |-> 80, h |-> 40], axis |-> "y", amplitude |-> 80, speed |-> 40],
                     [rect |-> [x |-> 2600, y |-> 260, w |-> 120, h |-> 40], axis |-> "x", amplitude |-> 120, speed |-> 30],
                     [rect |-> [x |-> 1680, y |-> 220, w |-> 80, h |-> 40], axis |-> "y", amplitude |-> 60, speed |-> 45] >>,
    triggers |-> << [trigger |-> [x |-> 1400, y |-> 380, w |-> 80, h |-> 80], spike |-> [x |-> 1480, y |-> 420, w |-> 40, h |-> 40]],
                  [trigger |-> [x |-> 2800, y |-> 500, w |-> 80, h |-> 80], spike |-> [x |-> 2880, y |-> 540, w |-> 40, h |-> 40]],
                  [trigger |-> [x |-> 3600, y |-> 580, w |-> 120, h |-> 80], spike |-> [x |-> 3720, y |-> 620, w |-> 40, h |-> 40]] >>,
    axes |-> << [pivot |-> <<2000, 100>>, length |-> 180, swing_degrees |-> 90, speed |-> 25],
              [pivot |-> <<3600, 180>>, length |-> 140, swing_degrees |-> 100, speed |-> 30],
              [pivot |-> <<800, 260>>, length |-> 100, swing_degrees |-> 60, speed |-> 40] >>,
    chasers |-> << [spawn |-> <<4200, 260>>, speed |-> 240, max_time |-> 4000],
                 [spawn |-> <<200, 460>>, speed |-> 180, max_time |-> 5000],
                 [spawn |-> <<2400, 340>>, speed |-> 210, max_time |-> 3000] >>,
    disappear |-> << [trigger |-> [x |-> 2000, y |-> 340, w |-> 80, h |-> 80], platform |-> [x |-> 2200, y |-> 420, w |-> 320, h |-> 40]],
                   [trigger |-> [x |-> 600, y |-> 500, w |-> 80, h |-> 80], platform |-> [x |-> 600, y |-> 540, w |-> 320, h |-> 40]] >>,
    crushers |-> << [rect |-> [x |-> 1800, y |-> 100, w |-> 80, h |-> 80], slam_height |-> 450],
                  [rect |-> [x |-> 4000, y |-> 100, w |-> 80, h |-> 80], slam_height |-> 500],
                  [rect |-> [x |-> 4600, y |-> 180, w |-> 80, h |-> 80], slam_height |-> 300] >> ]

Blueprint6 ==
  [ id |-> 6,
    name |-> "Level 6: The Climb",
    spawn |-> <<80, 580>>,
    goal |-> [x |-> 2600, y |-> 100, w |-> 80, h |-> 160],
    platforms |-> << [x |-> 0, y |-> 620, w |-> 400, h |-> 40],
                   [x |-> 480, y |-> 540, w |-> 120, h |-> 40],
                   [x |-> 720, y |-> 420, w |-> 120, h |-> 40],
                   [x |-> 960, y |-> 300, w |-> 120, h |-> 40],
                   [x |-> 1280, y |-> 180, w |-> 120, h |-> 40],
                   [x |-> 1800, y |-> 260, w |-> 160, h |-> 40],
                   [x |-> 2200, y |-> 100, w |-> 600, h |-> 40] >>,
    static_traps |-> << [x |-> 400, y |-> 620, w |-> 2200, h |-> 40] >>,
    oscillators |-> << [rect |-> [x |-> 640, y |-> 340, w |-> 40, h |-> 40], axis |-> "y", amplitude |-> 120, speed |-> 45],
                     [rect |-> [x |-> 1200, y |-> 260, w |-> 40, h |-> 40], axis |-> "x", amplitude |-> 140, speed |-> 30],
                     [rect |-> [x |-> 1600, y |-> 180, w |-> 40, h |-> 80], axis |-> "y", amplitude |-> 150, speed |-> 50] >>,
    triggers |-> << [trigger |-> [x |-> 1280, y |-> 140, w |-> 80, h |-> 80], spike |-> [x |-> 1360, y |-> 180, w |-> 40, h |-> 40]],
                  [trigger |-> [x |-> 2200, y |-> 60, w |-> 120, h |-> 80], spike |-> [x |-> 2320, y |-> 100, w |-> 40, h |-> 40]],
                  [trigger |-> [x |-> 200, y |-> 580, w |-> 200, h |-> 80], spike |-> [x |-> 320, y |-> 620, w |-> 40, h |-> 40]] >>,
    axes |-> << [pivot |-> <<1680, 20>>, length |-> 180, swing_degrees |-> 120, speed |-> 22],
              [pivot |-> <<800, -60>>, length |-> 150, swing_degrees |-> 90, speed |-> 30],
              [pivot |-> <<2320, -60>>, length |-> 130, swing_degrees |-> 45, speed |-> 40] >>,
    chasers |-> << [spawn |-> <<2400, 260>>, speed |-> 250, max_time |-> 4000],
                 [spawn |-> <<600, 180>>, speed |-> 200, max_time |-> 6000] >>,
    disappear |-> << [trigger |-> [x |-> 720, y |-> 380, w |-> 80, h |-> 80], platform |-> [x |-> 720, y |-> 420, w |-> 120, h |-> 40]],
                   [trigger |-> [x |-> 1280, y |-> 100, w |-> 80, h |-> 80], platform |-> [x |-> 1280, y |-> 180, w |-> 120, h |-> 40]] >>,
    crushers |-> << [rect |-> [x |-> 1400, y |-> -60, w |-> 80, h |-> 80], slam_height |-> 500],
                  [rect |-> [x |-> 2200, y |-> -60, w |-> 80, h |-> 80], slam_height |-> 400] >> ]

Blueprint7 ==
  [ id |-> 7,
    name |-> "Level 7: Panic",
    spawn |-> <<80, 580>>,
    goal |-> [x |-> 5200, y |-> 500, w |-> 80, h |-> 160],
    platforms |-> << [x |-> 0, y |-> 620, w |-> 400, h |-> 40],
                   [x |-> 600, y |-> 540, w |-> 160, h |-> 40],
                   [x |-> 1000, y |-> 460, w |-> 160, h |-> 40],
                   [x |-> 1400, y |-> 380, w |-> 160, h |-> 40],
                   [x |-> 1800, y |-> 460, w |-> 160, h |-> 40],
                   [x |-> 2200, y |-> 540, w |-> 160, h |-> 40],
                   [x |-> 2600, y |-> 620, w |-> 2800, h |-> 40] >>,
    static_traps |-> << [x |-> 400, y |-> 620, w |-> 4800, h |-> 40] >>,
    oscillators |-> << [rect |-> [x |-> 480, y |-> 460, w |-> 40, h |-> 80], axis |-> "x", amplitude |-> 120, speed |-> 50],
                     [rect |-> [x |-> 1680, y |-> 340, w |-> 40, h |-> 80], axis |-> "x", amplitude |-> 150, speed |-> 45],
                     [rect |-> [x |-> 2880, y |-> 540, w |-> 40, h |-> 80], axis |-> "x", amplitude |-> 180, speed |-> 55],
                     [rect |-> [x |-> 4000, y |-> 460, w |-> 80, h |-> 40], axis |-> "y", amplitude |-> 100, speed |-> 40] >>,
    triggers |-> << [trigger |-> [x |-> 2600, y |-> 580, w |-> 200, h |-> 80], spike |-> [x |-> 2720, y |-> 620, w |-> 40, h |-> 40]],
                  [trigger |-> [x |-> 3400, y |-> 580, w |-> 200, h |-> 80], spike |-> [x |-> 3520, y |-> 620, w |-> 40, h |-> 40]],
                  [trigger |-> [x |-> 4200, y |-> 580, w |-> 200, h |-> 80], spike |-> [x |-> 4320, y |-> 620, w |-> 40, h |-> 40]] >>,
    axes |-> << [pivot |-> <<3200, 180>>, length |-> 160, swing_degrees |-> 90, speed |-> 25] >>,
    chasers |-> << [spawn |-> <<3600, 380>>, speed |-> 260, max_time |-> 4500],
                 [spawn |-> <<4400, 380>>, speed |-> 280, max_time |-> 4000],
                 [spawn |-> <<1600, 260>>, speed |-> 200, max_time |-> 5000] >>,
    disappear |-> << [trigger |-> [x |-> 1000, y |-> 420, w |-> 80, h |-> 80], platform |-> [x |-> 1000, y |-> 460, w |-> 160, h |-> 40]],
                   [trigger |-> [x |-> 1800, y |-> 420, w |-> 80, h |-> 80], platform |-> [x |-> 1800, y |-> 460, w |-> 160, h |-> 40]],
                   [trigger |-> [x |-> 3200, y |-> 580, w |-> 80, h |-> 80], platform |-> [x |-> 2600, y |-> 620, w |-> 400, h |-> 40]] >>,
    crushers |-> << [rect |-> [x |-> 2000, y |-> 100, w |-> 80, h |-> 80], slam_height |-> 450],
                  [rect |-> [x |-> 4000, y |-> 100, w |-> 80, h |-> 80], slam_height |-> 500] >> ]

Blueprint8 ==
  [ id |-> 8,
    name |-> "Level 8: Precision",
    spawn |-> <<80, 580>>,
    goal |-> [x |-> 3400, y |-> 420, w |-> 80, h |-> 160],
    platforms |-> << [x |-> 0, y |-> 620, w |-> 200, h |-> 40],
                   [x |-> 480, y |-> 540, w |-> 80, h |-> 40],
                   [x |-> 880, y |-> 420, w |-> 80, h |-> 40],
                   [x |-> 1280, y |-> 300, w |-> 80, h |-> 40],
                   [x |-> 1680, y |-> 420, w |-> 80, h |-> 40],
                   [x |-> 2080, y |-> 540, w |-> 80, h |-> 40],
                   [x |-> 2600, y |-> 460, w |-> 1000, h |-> 40] >>,
    static_traps |-> << [x |-> 200, y |-> 620, w |-> 3200, h |-> 40] >>,
    oscillators |-> << [rect |-> [x |-> 600, y |-> 340, w |-> 40, h |-> 40], axis |-> "y", amplitude |-> 100, speed |-> 40],
                     [rect |-> [x |-> 1400, y |-> 180, w |-> 40, h |-> 40], axis |-> "y", amplitude |-> 120, speed |-> 45],
                     [rect |-> [x |-> 880, y |-> 260, w |-> 40, h |-> 40], axis |-> "x", amplitude |-> 80, speed |-> 30] >>,
    triggers |-> << [trigger |-> [x |-> 2600, y |-> 420, w |-> 120, h |-> 80], spike |-> [x |-> 2680, y |-> 460, w |-> 40, h |-> 40]],
                  [trigger |-> [x |-> 3000, y |-> 420, w |-> 120, h |-> 80], spike |-> [x |-> 3080, y |-> 460, w |-> 40, h |-> 40]],
                  [trigger |-> [x |-> 1600, y |-> 620, w |-> 200, h |-> 40], spike |-> [x |-> 1680, y |-> 620, w |-> 40, h |-> 40]] >>,
    axes |-> << [pivot |-> <<1120, 100>>, length |-> 180, swing_degrees |-> 60, speed |-> 30],
              [pivot |-> <<1920, 100>>, length |-> 180, swing_degrees |-> 60, speed |-> 30],
              [pivot |-> <<2600, 180>>, length |-> 140, swing_degrees |-> 100, speed |-> 25] >>,
    chasers |-> << [spawn |-> <<3200, 260>>, speed |-> 220, max_time |-> 4000],
                 [spawn |-> <<800, 180>>, speed |-> 180, max_time |-> 8000] >>,
    disappear |-> << [trigger |-> [x |-> 1280, y |-> 260, w |-> 80, h |-> 80], platform |-> [x |-> 1280, y |-> 300, w |-> 80, h |-> 40]],
                   [trigger |-> [x |-> 480, y |-> 460, w |-> 80, h |-> 80], platform |-> [x |-> 480, y |-> 540, w |-> 80, h |-> 40]] >>,
    crushers |-> << [rect |-> [x |-> 1120, y |-> 100, w |-> 80, h |-> 80], slam_height |-> 400],
                  [rect |-> [x |-> 2080, y |-> 100, w |-> 80, h |-> 80], slam_height |-> 400] >> ]

Blueprint9 ==
  [ id |-> 9,
    name |-> "Level 9: The Gauntlet",
    spawn |-> <<80, 580>>,
    goal |-> [x |-> 5000, y |-> 500, w |-> 120, h |-> 200],
    platforms |-> << [x |-> 0, y |-> 620, w |-> 400, h |-> 40],
                   [x |-> 600, y |-> 540, w |-> 320, h |-> 40],
                   [x |-> 1200, y |-> 420, w |-> 320, h |-> 40],
                   [x |-> 1800, y |-> 300, w |-> 320, h |-> 40],
                   [x |-> 2400, y |-> 420, w |-> 320, h |-> 40],
                   [x |-> 3000, y |-> 540, w |-> 320, h |-> 40],
                   [x |-> 3600, y |-> 620, w |-> 1600, h |-> 40] >>,
    static_traps |-> << [x |-> 400, y |-> 620, w |-> 400, h |-> 40],
                      [x |-> 920, y |-> 620, w |-> 600, h |-> 40],
                      [x |-> 1520, y |-> 620, w |-> 600, h |-> 40],
                      [x |-> 2120, y |-> 620, w |-> 600, h |-> 40],
                      [x |-> 2720, y |-> 620, w |-> 600, h |-> 40],
                      [x |-> 3320, y |-> 620, w |-> 600, h |-> 40] >>,
    oscillators |-> << [rect |-> [x |-> 1800, y |-> 180, w |-> 80, h |-> 40], axis |-> "y", amplitude |-> 100, speed |-> 40],
                     [rect |-> [x |-> 3400, y |-> 180, w |-> 80, h |-> 40], axis |-> "y", amplitude |-> 120, speed |-> 35],
                     [rect |-> [x |-> 2400, y |-> 60, w |-> 80, h |-> 40], axis |-> "x", amplitude |-> 100, speed |-> 25] >>,
    triggers |-> << [trigger |-> [x |-> 1200, y |-> 380, w |-> 120, h |-> 80], spike |-> [x |-> 1320, y |-> 420, w |-> 40, h |-> 40]],
                  [trigger |-> [x |-> 4000, y |-> 580, w |-> 200, h |-> 80], spike |-> [x |-> 4200, y |-> 620, w |-> 40, h |-> 40]] >>,
    axes |-> << [pivot |-> <<1000, 60>>, length |-> 180, swing_degrees |-> 90, speed |-> 25],
              [pivot |-> <<2600, 60>>, length |-> 180, swing_degrees |-> 120, speed |-> 20],
              [pivot |-> <<4200, 60>>, length |-> 180, swing_degrees |-> 180, speed |-> 28] >>,
    chasers |-> << [spawn |-> <<4400, 100>>, speed |-> 260, max_time |-> 4500],
                 [spawn |-> <<800, 260>>, speed |-> 200, max_time |-> 6000],
                 [spawn |-> <<2800, 180>>, speed |-> 240, max_time |-> 4000] >>,
    disappear |-> << [trigger |-> [x |-> 1800, y |-> 260, w |-> 80, h |-> 80], platform |-> [x |-> 1800, y |-> 300, w |-> 320, h |-> 40]],
                   [trigger |-> [x |-> 3000, y |-> 500, w |-> 80, h |-> 80], platform |-> [x |-> 3000, y |-> 540, w |-> 320, h |-> 40]] >>,
    crushers |-> << [rect |-> [x |-> 2000, y |-> 20, w |-> 80, h |-> 80], slam_height |-> 550],
                  [rect |-> [x |-> 3200, y |-> 20, w |-> 80, h |-> 80], slam_height |-> 500],
                  [rect |-> [x |-> 4400, y |-> 20, w |-> 80, h |-> 80], slam_height |-> 600] >> ]

Blueprint10 ==
  [ id |-> 10,
    name |-> "Level 10: Betrayal",
    spawn |-> <<80, 580>>,
    goal |-> [x |-> 5600, y |-> 340, w |-> 80, h |-> 160],
    platforms |-> << [x |-> 0, y |-> 620, w |-> 480, h |-> 40],
                   [x |-> 720, y |-> 540, w |-> 160, h |-> 40],
                   [x |-> 1120, y |-> 460, w |-> 160, h |-> 40],
                   [x |-> 1520, y |-> 380, w |-> 160, h |-> 40],
                   [x |-> 2000, y |-> 500, w |-> 400, h |-> 40],
                   [x |-> 2800, y |-> 420, w |-> 400, h |-> 40],
                   [x |-> 3600, y |-> 340, w |-> 400, h |-> 40],
                   [x |-> 4400, y |-> 540, w |-> 400, h |-> 40],
                   [x |-> 5200, y |-> 340, w |-> 800, h |-> 40] >>,
    static_traps |-> << [x |-> 480, y |-> 620, w |-> 5120, h |-> 40] >>,
    oscillators |-> << [rect |-> [x |-> 600, y |-> 420, w |-> 40, h |-> 40], axis |-> "y", amplitude |-> 80, speed |-> 40],
                     [rect |-> [x |-> 1800, y |-> 300, w |-> 40, h |-> 40], axis |-> "x", amplitude |-> 100, speed |-> 30],
                     [rect |-> [x |-> 4400, y |-> 180, w |-> 80, h |-> 40], axis |-> "y", amplitude |-> 150, speed |-> 50] >>,
    triggers |-> << [trigger |-> [x |-> 2000, y |-> 460, w |-> 120, h |-> 80], spike |-> [x |-> 2080, y |-> 500, w |-> 40, h |-> 40]],
                  [trigger |-> [x |-> 3600, y |-> 300, w |-> 120, h |-> 80], spike |-> [x |-> 3680, y |-> 340, w |-> 40, h |-> 40]],
                  [trigger |-> [x |-> 5200, y |-> 300, w |-> 120, h |-> 80], spike |-> [x |-> 5400, y |-> 340, w |-> 40, h |-> 40]] >>,
    axes |-> << [pivot |-> <<2400, 60>>, length |-> 140, swing_degrees |-> 180, speed |-> 18],
              [pivot |-> <<4000, 60>>, length |-> 140, swing_degrees |-> 180, speed |-> 22],
              [pivot |-> <<1200, 180>>, length |-> 120, swing_degrees |-> 90, speed |-> 30] >>,
    chasers |-> << [spawn |-> <<4800, 260>>, speed |-> 280, max_time |-> 3000],
                 [spawn |-> <<400, 460>>, speed |-> 220, max_time |-> 5000] >>,
    disappear |-> << [trigger |-> [x |-> 1520, y |-> 340, w |-> 80, h |-> 80], platform |-> [x |-> 1520, y |-> 380, w |-> 160, h |-> 40]],
                   [trigger |-> [x |-> 2800, y |-> 380, w |-> 80, h |-> 80], platform |-> [x |-> 2800, y |-> 420, w |-> 400, h |-> 40]],
                   [trigger |-> [x |-> 4400, y |-> 500, w |-> 80, h |-> 80], platform |-> [x |-> 4400, y |-> 540, w |-> 400, h |-> 40]] >>,
    crushers |-> << [rect |-> [x |-> 2000, y |-> 20, w |-> 80, h |-> 80], slam_height |-> 550],
                  [rect |-> [x |-> 3600, y |-> 20, w |-> 80, h |-> 80], slam_height |-> 500] >> ]

Blueprint11 ==
  [ id |-> 11,
    name |-> "Level 11: Chaos",
    spawn |-> <<80, 580>>,
    goal |-> [x |-> 6400, y |-> 260, w |-> 80, h |-> 200],
    platforms |-> << [x |-> 0, y |-> 620, w |-> 480, h |-> 40],
                   [x |-> 600, y |-> 500, w |-> 400, h |-> 40],
                   [x |-> 1400, y |-> 380, w |-> 400, h |-> 40],
                   [x |-> 2200, y |-> 260, w |-> 400, h |-> 40],
                   [x |-> 3000, y |-> 140, w |-> 400, h |-> 40],
                   [x |-> 3800, y |-> 260, w |-> 400, h |-> 40],
                   [x |-> 4600, y |-> 380, w |-> 400, h |-> 40],
                   [x |-> 5400, y |-> 500, w |-> 400, h |-> 40],
                   [x |-> 6200, y |-> 260, w |-> 800, h |-> 40] >>,
    static_traps |-> << [x |-> 400, y |-> 620, w |-> 6000, h |-> 40] >>,
    oscillators |-> << [rect |-> [x |-> 800, y |-> 180, w |-> 80, h |-> 40], axis |-> "y", amplitude |-> 120, speed |-> 50],
                     [rect |-> [x |-> 2400, y |-> 60, w |-> 80, h |-> 40], axis |-> "x", amplitude |-> 150, speed |-> 40],
                     [rect |-> [x |-> 4000, y |-> 180, w |-> 80, h |-> 40], axis |-> "y", amplitude |-> 120, speed |-> 50],
                     [rect |-> [x |-> 5600, y |-> 60, w |-> 80, h |-> 40], axis |-> "x", amplitude |-> 120, speed |-> 45] >>,
    triggers |-> << [trigger |-> [x |-> 1400, y |-> 340, w |-> 120, h |-> 80], spike |-> [x |-> 1480, y |-> 380, w |-> 40, h |-> 40]],
                  [trigger |-> [x |-> 5400, y |-> 460, w |-> 120, h |-> 80], spike |-> [x |-> 5480, y |-> 500, w |-> 40, h |-> 40]],
                  [trigger |-> [x |-> 3000, y |-> 100, w |-> 120, h |-> 80], spike |-> [x |-> 3120, y |-> 140, w |-> 40, h |-> 40]],
                  [trigger |-> [x |-> 3800, y |-> 220, w |-> 120, h |-> 80], spike |-> [x |-> 3920, y |-> 260, w |-> 40, h |-> 40]] >>,
    axes |-> << [pivot |-> <<1800, 20>>, length |-> 180, swing_degrees |-> 180, speed |-> 20],
              [pivot |-> <<3400, -60>>, length |-> 200, swing_degrees |-> 360, speed |-> 30],
              [pivot |-> <<5000, 20>>, length |-> 180, swing_degrees |-> 180, speed |-> 20],
              [pivot |-> <<6400, 60>>, length |-> 150, swing_degrees |-> 90, speed |-> 40] >>,
    chasers |-> << [spawn |-> <<2000, 60>>, speed |-> 280, max_time |-> 4000],
                 [spawn |-> <<5600, 60>>, speed |-> 300, max_time |-> 3500],
                 [spawn |-> <<200, 260>>, speed |-> 250, max_time |-> 6000] >>,
    disappear |-> << [trigger |-> [x |-> 3000, y |-> 100, w |-> 80, h |-> 80], platform |-> [x |-> 3000, y |-> 140, w |-> 400, h |-> 40]],
                   [trigger |-> [x |-> 2200, y |-> 220, w |-> 80, h |-> 80], platform |-> [x |-> 2200, y |-> 260, w |-> 400, h |-> 40]] >>,
    crushers |-> << [rect |-> [x |-> 1400, y |-> -60, w |-> 80, h |-> 80], slam_height |-> 500],
                  [rect |-> [x |-> 4600, y |-> -60, w |-> 80, h |-> 80], slam_height |-> 500] >> ]

Blueprint12 ==
  [ id |-> 12,
    name |-> "Level 12: The Gatekeeper",
    spawn |-> <<80, 580>>,
    goal |-> [x |-> 7200, y |-> 340, w |-> 120, h |-> 200],
    platforms |-> << [x |-> 0, y |-> 620, w |-> 400, h |-> 40],
                   [x |-> 600, y |-> 460, w |-> 80, h |-> 40],
                   [x |-> 1000, y |-> 340, w |-> 80, h |-> 40],
                   [x |-> 1400, y |-> 220, w |-> 80, h |-> 40],
                   [x |-> 1800, y |-> 100, w |-> 80, h |-> 40],
                   [x |-> 2200, y |-> -20, w |-> 80, h |-> 40],
                   [x |-> 3200, y |-> 60, w |-> 120, h |-> 40],
                   [x |-> 4200, y |-> 180, w |-> 120, h |-> 40],
                   [x |-> 5200, y |-> 300, w |-> 120, h |-> 40],
                   [x |-> 6200, y |-> 420, w |-> 120, h |-> 40],
                   [x |-> 7000, y |-> 340, w |-> 1200, h |-> 40] >>,
    static_traps |-> << [x |-> 400, y |-> 620, w |-> 6800, h |-> 40] >>,
    oscillators |-> << [rect |-> [x |-> 680, y |-> 260, w |-> 80, h |-> 160], axis |-> "y", amplitude |-> 150, speed |-> 40],
                     [rect |-> [x |-> 1880, y |-> 20, w |-> 80, h |-> 160], axis |-> "y", amplitude |-> 150, speed |-> 45],
                     [rect |-> [x |-> 3600, y |-> -60, w |-> 200, h |-> 40], axis |-> "x", amplitude |-> 250, speed |-> 30],
                     [rect |-> [x |-> 4400, y |-> -140, w |-> 80, h |-> 40], axis |-> "y", amplitude |-> 200, speed |-> 35] >>,
    triggers |-> << [trigger |-> [x |-> 7000, y |-> 300, w |-> 200, h |-> 80], spike |-> [x |-> 7200, y |-> 340, w |-> 40, h |-> 40]],
                  [trigger |-> [x |-> 3200, y |-> 20, w |-> 120, h |-> 80], spike |-> [x |-> 3320, y |-> 60, w |-> 40, h |-> 40]] >>,
    axes |-> << [pivot |-> <<5600, -60>>, length |-> 250, swing_degrees |-> 360, speed |-> 50],
              [pivot |-> <<6400, 60>>, length |-> 200, swing_degrees |-> 360, speed |-> 40],
              [pivot |-> <<2400, -140>>, length |-> 180, swing_degrees |-> 360, speed |-> 30] >>,
    chasers |-> << [spawn |-> <<200, 420>>, speed |-> 350, max_time |-> 4000],
                 [spawn |-> <<3400, 60>>, speed |-> 380, max_time |-> 3500],
                 [spawn |-> <<6000, 260>>, speed |-> 300, max_time |-> 4000] >>,
    disappear |-> << [trigger |-> [x |-> 1400, y |-> 180, w |-> 80, h |-> 80], platform |-> [x |-> 1400, y |-> 220, w |-> 80, h |-> 40]],
                   [trigger |-> [x |-> 5200, y |-> 260, w |-> 80, h |-> 80], platform |-> [x |-> 5200, y |-> 300, w |-> 120, h |-> 40]],
                   [trigger |-> [x |-> 600, y |-> 420, w |-> 80, h |-> 80], platform |-> [x |-> 600, y |-> 460, w |-> 80, h |-> 40]] >>,
    crushers |-> << [rect |-> [x |-> 2800, y |-> -140, w |-> 80, h |-> 80], slam_height |-> 650],
                  [rect |-> [x |-> 6000, y |-> -60, w |-> 80, h |-> 80], slam_height |-> 600],
                  [rect |-> [x |-> 4000, y |-> -60, w |-> 80, h |-> 80], slam_height |-> 550] >> ]

Blueprint13 ==
  [ id |-> 13,
    name |-> "BOSS: The Devil's Throne",
    spawn |-> <<80, 580>>,
    goal |-> [x |-> 8000, y |-> 460, w |-> 160, h |-> 320],
    platforms |-> << [x |-> 0, y |-> 620, w |-> 600, h |-> 40],
                   [x |-> 800, y |-> 500, w |-> 240, h |-> 40],
                   [x |-> 1400, y |-> 340, w |-> 240, h |-> 40],
                   [x |-> 2000, y |-> 180, w |-> 240, h |-> 40],
                   [x |-> 2800, y |-> 60, w |-> 800, h |-> 40],
                   [x |-> 4000, y |-> 180, w |-> 400, h |-> 40],
                   [x |-> 5000, y |-> 340, w |-> 400, h |-> 40],
                   [x |-> 6000, y |-> 500, w |-> 400, h |-> 40],
                   [x |-> 7000, y |-> 620, w |-> 1600, h |-> 40] >>,
    static_traps |-> << [x |-> 600, y |-> 620, w |-> 7400, h |-> 40] >>,
    oscillators |-> << [rect |-> [x |-> 1200, y |-> 140, w |-> 80, h |-> 120], axis |-> "y", amplitude |-> 200, speed |-> 50],
                     [rect |-> [x |-> 4400, y |-> 20, w |-> 160, h |-> 40], axis |-> "x", amplitude |-> 300, speed |-> 40],
                     [rect |-> [x |-> 6400, y |-> 460, w |-> 80, h |-> 40], axis |-> "y", amplitude |-> 150, speed |-> 60],
                     [rect |-> [x |-> 400, y |-> 420, w |-> 80, h |-> 40], axis |-> "y", amplitude |-> 40, speed |-> 30] >>,
    triggers |-> << [trigger |-> [x |-> 3000, y |-> 20, w |-> 200, h |-> 80], spike |-> [x |-> 3120, y |-> 60, w |-> 40, h |-> 40]],
                  [trigger |-> [x |-> 7400, y |-> 580, w |-> 200, h |-> 80], spike |-> [x |-> 7600, y |-> 620, w |-> 40, h |-> 40]],
                  [trigger |-> [x |-> 2000, y |-> 140, w |-> 120, h |-> 80], spike |-> [x |-> 2120, y |-> 180, w |-> 40, h |-> 40]],
                  [trigger |-> [x |-> 4800, y |-> 260, w |-> 120, h |-> 80], spike |-> [x |-> 5000, y |-> 340, w |-> 40, h |-> 40]] >>,
    axes |-> << [pivot |-> <<4800, -140>>, length |-> 250, swing_degrees |-> 360, speed |-> 25],
              [pivot |-> <<6000, -60>>, length |-> 220, swing_degrees |-> 360, speed |-> 30],
              [pivot |-> <<1600, -140>>, length |-> 180, swing_degrees |-> 180, speed |-> 20],
              [pivot |-> <<7200, 60>>, length |-> 140, swing_degrees |-> 90, speed |-> 50] >>,
    chasers |-> << [spawn |-> <<2400, -140>>, speed |-> 320, max_time |-> 6000],
                 [spawn |-> <<7200, 460>>, speed |-> 400, max_time |-> 4000],
                 [spawn |-> <<400, 260>>, speed |-> 350, max_time |-> 8000],
                 [spawn |-> <<4800, 60>>, speed |-> 380, max_time |-> 5000] >>,
    disappear |-> << [trigger |-> [x |-> 2000, y |-> 140, w |-> 80, h |-> 80], platform |-> [x |-> 2000, y |-> 180, w |-> 240, h |-> 40]],
                   [trigger |-> [x |-> 5000, y |-> 300, w |-> 80, h |-> 80], platform |-> [x |-> 5000, y |-> 340, w |-> 400, h |-> 40]],
                   [trigger |-> [x |-> 7000, y |-> 580, w |-> 80, h |-> 80], platform |-> [x |-> 7000, y |-> 620, w |-> 400, h |-> 40]],
                   [trigger |-> [x |-> 1400, y |-> 260, w |-> 80, h |-> 80], platform |-> [x |-> 1400, y |-> 340, w |-> 240, h |-> 40]] >>,
    crushers |-> << [rect |-> [x |-> 1600, y |-> -220, w |-> 80, h |-> 80], slam_height |-> 700],
                  [rect |-> [x |-> 3600, y |-> -220, w |-> 80, h |-> 80], slam_height |-> 750],
                  [rect |-> [x |-> 6400, y |-> -220, w |-> 80, h |-> 80], slam_height |-> 700],
                  [rect |-> [x |-> 7600, y |-> -140, w |-> 80, h |-> 80], slam_height |-> 600],
                  [rect |-> [x |-> 800, y |-> -220, w |-> 80, h |-> 80], slam_height |-> 500] >> ]

LEVEL_BLUEPRINTS ==
  << Blueprint1, Blueprint2, Blueprint3, Blueprint4, Blueprint5, Blueprint6,
     Blueprint7, Blueprint8, Blueprint9, Blueprint10, Blueprint11,
     Blueprint12, Blueprint13 >>

\* len(LEVEL_BLUEPRINTS)
NumLevels == Len(LEVEL_BLUEPRINTS)

(***************************************************************************)
(* State                                                                   *)
(***************************************************************************)
VARIABLES
  \* LevelManager
  current_level_index, level_id, current_attempts, level_length,
  spawn_point, goal_rect, platforms, static_traps,
  oscillators, trigger_spikes, swing_axes, chasers,
  disappearing_platforms, crushing_hazards,
  \* the time update_hazards has advanced the hazards of the loaded level by,
  \* in milliseconds
  clock,
  \* Player (a record of the fields of main.Player)
  player,
  \* Game: current_user is a record whose field present tells it from None;
  \* map_progress maps every level id to the stars stored for it, 0 for a
  \* level without an entry; camera_x is in thousandths of a pixel; dialogue
  \* holds DialogueManager.active and locked; last_victory the level and
  \* stars of the last handle_victory (level 0 before the first)
  state, current_user, map_progress, camera_x, message_text, dialogue,
  last_victory,
  \* the database behind db_manager, for the one player of the model: the
  \* rows of Level_Attempts in insertion order, the number of rows of Deaths
  \* with the last of them (no operation of the model reads that table), and
  \* Players.total_stars
  db,
  \* the call made last: its name, its argument, its return value and the
  \* exception it raised ("none" when it returned)
  op, arg, result, error,
  \* locals of the last Player.update: was_on_ground (line 117) and the
  \* value of on_ground tested at line 133, before the buffered jump
  was_on_ground, landed,
  \* whether the player's rectangle overlapped a platform when the last
  \* Player.update began
  overlapped,
  \* history of the player since it last stood on a platform: the frame time
  \* since the last update that ended a vertical pass on a platform
  \* (since_ground) and since the update after it, in which the player left
  \* the ground (since_left), both saturating at COYOTE_TIME; the jump
  \* impulses fired since then, by kind; and the number of updates in a row
  \* with neither a platform contact in the vertical pass nor a jump impulse
  since_ground, since_left, full_jumps, air_jumps, fall_frames,
  \* the frame time since the last Player.jump call that no impulse has
  \* served yet, saturating at JUMP_BUFFER_TIME (its value when there is
  \* no such call)
  since_request

levelVars ==
  << current_level_index, level_id, current_attempts, level_length,
     spawn_point, goal_rect, platforms, static_traps,
     oscillators, trigger_spikes, swing_axes, chasers,
     disappearing_platforms, crushing_hazards, clock >>

gameVars ==
  << state, current_user, map_progress, camera_x, message_text, dialogue,
     last_victory, db >>

historyVars ==
  << was_on_ground, landed, overlapped, since_ground, since_left, full_jumps, air_jumps,
     fall_frames, since_request >>

callVars == << op, arg, result, error >>

vars == << levelVars, player, gameVars, callVars, historyVars >>

(***************************************************************************)
(* Python list indexing: seq[i] is defined for -len <= i < len, a negative *)
(* index counts from the end; any other index raises IndexError.           *)
(***************************************************************************)
PyIndexOK(seq, i) == -Len(seq) <= i /\ i < Len(seq)
PyGet(seq, i) == IF i >= 0 THEN seq[i + 1] ELSE seq[Len(seq) + i + 1]

\* "x in list" and the append guarded by it (load_level, lines 625-626)
InSeq(x, seq) == \E k \in 1..Len(seq) : seq[k] = x
\* (mutant) nothing is appended
AppendIfAbsent_never(seq, x) == seq

AppendIfAbsent(seq, x) == IF InSeq(x, seq) THEN seq ELSE Append(seq, x)

(***************************************************************************)
(* Hazard constructors (hazards.py)                                        *)
(***************************************************************************)
OscillatingHazard(entry) ==
  [ base_rect |-> entry.rect, rect |-> entry.rect, axis |-> entry.axis,
    amplitude |-> entry.amplitude, speed |-> entry.speed, timer |-> 0 ]

\* rise_pixels and rise_speed keep their defaults: load_level passes neither
RISE_PIXELS == 40
RISE_SPEED == 140

TriggerSpike(entry) ==
  [ trigger_rect |-> entry.trigger,
    rest_rect |-> entry.spike,
    rect |-> [entry.spike EXCEPT !.y = entry.spike.y + RISE_PIXELS],
    hidden_y |-> entry.spike.y + RISE_PIXELS,
    target_y |-> entry.spike.y,
    rise_speed |-> RISE_SPEED,
    active |-> FALSE ]

SwingingAxe(entry) ==
  [ pivot |-> entry.pivot, length |-> entry.length,
    swing_degrees |-> entry.swing_degrees, speed |-> entry.speed,
    time |-> 0, rect |-> Rect(0, 0, 30, 60) ]

\* pos, a Vector2 of floats, is kept in tenths of a pixel
ChasingHazard(entry) ==
  [ pos |-> << entry.spawn[1] * 10, entry.spawn[2] * 10 >>, speed |-> entry.speed, max_time |-> entry.max_time,
    timer |-> entry.max_time, is_active |-> TRUE,
    rect |-> Rect(0, 0, TILE_SIZE, TILE_SIZE) ]

DisappearingPlatform(entry) ==
  [ trigger_rect |-> entry.trigger, target_platform_rect |-> entry.platform,
    is_removed |-> FALSE ]

\* speed and return_speed keep their defaults: load_level passes neither
CRUSH_SPEED == 600
CRUSH_RETURN_SPEED == 100

CrushingHazard(entry) ==
  [ base_rect |-> entry.rect, rect |-> entry.rect,
    slam_height |-> entry.slam_height, speed |-> CRUSH_SPEED,
    return_speed |-> CRUSH_RETURN_SPEED, state |-> "IDLE",
    target_y |-> entry.rect.y + entry.slam_height ]

MapSeq(F(_), seq) == [k \in 1..Len(seq) |-> F(seq[k])]

(***************************************************************************)
(* LevelManager.load_level, the part after the blueprint is chosen: the    *)
(* runtime state built from a blueprint.  The decorations (random, only    *)
(* drawn) are left out; _apply_community_traps returns at once.            *)
(***************************************************************************)
RECURSIVE WithDisappearing(_, _, _)
\* the platform list after the loop over blueprint["disappear"]
WithDisappearing(plats, entries, k) ==
  IF k > Len(entries) THEN plats
  ELSE WithDisappearing(AppendIfAbsent(plats, entries[k].platform), entries, k + 1)

LevelFromBlueprint(blueprint) ==
  [ level_id |-> blueprint.id,
    spawn_point |-> blueprint.spawn,
    platforms |-> WithDisappearing(blueprint.platforms, blueprint.disappear, 1),
    static_traps |-> blueprint.static_traps,
    goal_rect |-> blueprint.goal,
    level_length |-> Max(right(blueprint.goal) + TILE, LEVEL_LENGTH),
    disappearing_platforms |-> MapSeq(DisappearingPlatform, blueprint.disappear),
    oscillators |-> MapSeq(OscillatingHazard, blueprint.oscillators),
    trigger_spikes |-> MapSeq(TriggerSpike, blueprint.triggers),
    swing_axes |-> MapSeq(SwingingAxe, blueprint.axes),
    chasers |-> MapSeq(ChasingHazard, blueprint.chasers),
    crushing_hazards |-> MapSeq(CrushingHazard, blueprint.crushers) ]

\* (mutant) the index is used as given
resolve_index_unwrapped(index) == index

\* the level index load_level resolves an explicit index to (line 592)
resolve_index(index) == index % NumLevels

InstallLevel(L) ==
  /\ level_id' = L.level_id
  /\ spawn_point' = L.spawn_point
  /\ platforms' = L.platforms
  /\ static_traps' = L.static_traps
  /\ goal_rect' = L.goal_rect
  /\ level_length' = L.level_length
  /\ disappearing_platforms' = L.disappearing_platforms
  /\ oscillators' = L.oscillators
  /\ trigger_spikes' = L.trigger_spikes
  /\ swing_axes' = L.swing_axes
  /\ chasers' = L.chasers
  /\ crushing_hazards' = L.crushing_hazards
  /\ clock' = 0

\* the fields load_level has not assigned yet when the lookup at line 593
\* raises
LevelDataUnchanged ==
  UNCHANGED << level_id, spawn_point, platforms, static_traps, goal_rect,
               level_length, disappearing_platforms, oscillators,
               trigger_spikes, swing_axes, chasers, crushing_hazards, clock >>

\* the state change of LevelManager.load_level once lines 591-592 have
\* settled the level index on target
LoadLevelEffect(target) ==
  /\ current_level_index' = target
  /\ IF PyIndexOK(LEVEL_BLUEPRINTS, target)
       THEN /\ InstallLevel(LevelFromBlueprint(PyGet(LEVEL_BLUEPRINTS, target)))
            /\ error' = "none"
       ELSE /\ LevelDataUnchanged
            /\ error' = "IndexError"

(***************************************************************************)
(* LevelManager: attempt counter and star rating                           *)
(***************************************************************************)
\* (mutant) the thresholds are exclusive
calculate_star_rating_exclusive(attempts) ==
  IF attempts < 3 THEN 3
  ELSE IF attempts < 5 THEN 2
  ELSE 1

calculate_star_rating(attempts) ==
  IF attempts <= 3 THEN 3
  ELSE IF attempts <= 5 THEN 2
  ELSE 1

(***************************************************************************)
(* Player (main.py)                                                        *)
(***************************************************************************)
\* Player.__init__: the rectangle is TILE_SIZE wide and int(TILE_SIZE * 1.5)
\* high and starts at the spawn point
PLAYER_WIDTH == TILE_SIZE
PLAYER_HEIGHT == (TILE_SIZE * 3) \div 2

NewPlayer(spawn) ==
  [ spawn_point |-> spawn,
    rect |-> Rect(spawn[1], spawn[2], PLAYER_WIDTH, PLAYER_HEIGHT),
    vel |-> [x |-> 0, y |-> 0],
    on_ground |-> FALSE,
    coyote_timer |-> 0,
    jump_buffer_timer |-> 0,
    jumps_left |-> 2 ]

\* Player.reset
reset(p) ==
  [p EXCEPT !.rect.x = p.spawn_point[1], !.rect.y = p.spawn_point[2],
            !.vel = [x |-> 0, y |-> 0],
            !.on_ground = FALSE,
            !.coyote_timer = 0,
            !.jump_buffer_timer = 0,
            !.jumps_left = 2]

\* Player.set_spawn
set_spawn(p, spawn) == reset([p EXCEPT !.spawn_point = spawn])

\* Player.handle_input: keys is the pair of "left held" and "right held";
\* when both are held the second test wins
handle_input(p, keyLeft, keyRight) ==
  [p EXCEPT !.vel.x = IF keyRight THEN PLAYER_SPEED
                      ELSE IF keyLeft THEN -PLAYER_SPEED
                      ELSE 0]

\* Player.jump
jump(p) == [p EXCEPT !.jump_buffer_timer = JUMP_BUFFER_TIME]

\* one iteration of the loop of _resolve_collisions(axis="x")
resolve_x_hit(p, plat) ==
  IF ~colliderect(p.rect, plat) THEN p
  ELSE [p EXCEPT !.rect.x = IF p.vel.x > 0 THEN plat.x - p.rect.w
                            ELSE IF p.vel.x < 0 THEN plat.x + plat.w
                            ELSE p.rect.x,
                 !.vel.x = 0]

\* (mutant) an upward contact stops the player where it is
resolve_y_hit_head_stays_in(p, plat) ==
  IF ~colliderect(p.rect, plat) THEN p
  ELSE IF p.vel.y > 0
    THEN [p EXCEPT !.rect.y = plat.y - p.rect.h, !.vel.y = 0, !.on_ground = TRUE]
  ELSE IF p.vel.y < 0
    THEN [p EXCEPT !.vel.y = 0]
  ELSE p

\* (mutant) an upward contact also grounds the player
resolve_y_hit_any_contact(p, plat) ==
  IF ~colliderect(p.rect, plat) THEN p
  ELSE IF p.vel.y > 0
    THEN [p EXCEPT !.rect.y = plat.y - p.rect.h, !.vel.y = 0, !.on_ground = TRUE]
  ELSE IF p.vel.y < 0
    THEN [p EXCEPT !.rect.y = plat.y + plat.h, !.vel.y = 0, !.on_ground = TRUE]
  ELSE p

\* one iteration of the loop of _resolve_collisions(axis="y")
resolve_y_hit(p, plat) ==
  IF ~colliderect(p.rect, plat) THEN p
  ELSE IF p.vel.y > 0
    THEN [p EXCEPT !.rect.y = plat.y - p.rect.h, !.vel.y = 0, !.on_ground = TRUE]
  ELSE IF p.vel.y < 0
    THEN [p EXCEPT !.rect.y = plat.y + plat.h, !.vel.y = 0]
  ELSE p

RECURSIVE resolve_collisions(_, _, _, _)
\* Player._resolve_collisions: the platforms are visited in list order, each
\* against the rectangle as the earlier ones left it; k is the loop position
resolve_collisions(p, axis, plats, k) ==
  IF k > Len(plats) THEN p
  ELSE resolve_collisions(
         IF axis = "x" THEN resolve_x_hit(p, plats[k]) ELSE resolve_y_hit(p, plats[k]),
         axis, plats, k + 1)

\* (mutant) the fall speed is not capped
apply_gravity_uncapped(vy) == vy + GRAVITY

\* lines 121-122: gravity, then the cap on the fall speed
apply_gravity(vy) == Min(vy + GRAVITY, MAX_FALL_SPEED)

\* (mutant) only the right edge of the level is enforced
clamp_x_right_only(x, width, length) == Min(x, length - width)

\* line 126: the player is kept inside the level
clamp_x(x, width, length) == Max(0, Min(x, length - width))

\* JUMP_FORCE * 0.85, the impulse of an air jump (line 154): -18.7
AIR_JUMP_FORCE == (JUMP_FORCE * 85) \div 100

\* (mutant) a full jump leaves the coyote timer running
consume_buffered_jump_keeps_coyote(p) ==
  IF p.jump_buffer_timer > 0 /\ (p.on_ground \/ p.coyote_timer > 0)
    THEN [ p |-> [p EXCEPT !.vel.y = JUMP_FORCE,
                           !.on_ground = FALSE,
                           !.jump_buffer_timer = 0,
                           !.jumps_left = 1],
           ret |-> TRUE ]
  ELSE IF p.jump_buffer_timer > 0 /\ p.jumps_left > 0
    THEN [ p |-> [p EXCEPT !.vel.y = AIR_JUMP_FORCE,
                           !.jump_buffer_timer = 0,
                           !.jumps_left = p.jumps_left - 1],
           ret |-> TRUE ]
  ELSE [ p |-> p, ret |-> FALSE ]

\* (mutant) a ground or coyote jump leaves both jumps available
consume_buffered_jump_keeps_two(p) ==
  IF p.jump_buffer_timer > 0 /\ (p.on_ground \/ p.coyote_timer > 0)
    THEN [ p |-> [p EXCEPT !.vel.y = JUMP_FORCE,
                           !.on_ground = FALSE,
                           !.jump_buffer_timer = 0,
                           !.coyote_timer = 0,
                           !.jumps_left = 2],
           ret |-> TRUE ]
  ELSE IF p.jump_buffer_timer > 0 /\ p.jumps_left > 0
    THEN [ p |-> [p EXCEPT !.vel.y = AIR_JUMP_FORCE,
                           !.jump_buffer_timer = 0,
                           !.jumps_left = p.jumps_left - 1],
           ret |-> TRUE ]
  ELSE [ p |-> p, ret |-> FALSE ]

\* (mutant) only a player on the ground gets the full jump: no coyote time
consume_buffered_jump_no_coyote(p) ==
  IF p.jump_buffer_timer > 0 /\ p.on_ground
    THEN [ p |-> [p EXCEPT !.vel.y = JUMP_FORCE,
                           !.on_ground = FALSE,
                           !.jump_buffer_timer = 0,
                           !.coyote_timer = 0,
                           !.jumps_left = 1],
           ret |-> TRUE ]
  ELSE IF p.jump_buffer_timer > 0 /\ p.jumps_left > 0
    THEN [ p |-> [p EXCEPT !.vel.y = AIR_JUMP_FORCE,
                           !.jump_buffer_timer = 0,
                           !.jumps_left = p.jumps_left - 1],
           ret |-> TRUE ]
  ELSE [ p |-> p, ret |-> FALSE ]

\* (mutant) the air jump does not look at the jumps that are left
consume_buffered_jump_unlimited(p) ==
  IF p.jump_buffer_timer > 0 /\ (p.on_ground \/ p.coyote_timer > 0)
    THEN [ p |-> [p EXCEPT !.vel.y = JUMP_FORCE,
                           !.on_ground = FALSE,
                           !.jump_buffer_timer = 0,
                           !.coyote_timer = 0,
                           !.jumps_left = 1],
           ret |-> TRUE ]
  ELSE IF p.jump_buffer_timer > 0
    THEN [ p |-> [p EXCEPT !.vel.y = AIR_JUMP_FORCE,
                           !.jump_buffer_timer = 0,
                           !.jumps_left = Max(0, p.jumps_left - 1)],
           ret |-> TRUE ]
  ELSE [ p |-> p, ret |-> FALSE ]

\* (mutant) the air jump is tried before the ground or coyote jump
consume_buffered_jump_air_first(p) ==
  IF p.jump_buffer_timer > 0 /\ p.jumps_left > 0
    THEN [ p |-> [p EXCEPT !.vel.y = AIR_JUMP_FORCE,
                           !.jump_buffer_timer = 0,
                           !.jumps_left = p.jumps_left - 1],
           ret |-> TRUE ]
  ELSE IF p.jump_buffer_timer > 0 /\ (p.on_ground \/ p.coyote_timer > 0)
    THEN [ p |-> [p EXCEPT !.vel.y = JUMP_FORCE,
                           !.on_ground = FALSE,
                           !.jump_buffer_timer = 0,
                           !.coyote_timer = 0,
                           !.jumps_left = 1],
           ret |-> TRUE ]
  ELSE [ p |-> p, ret |-> FALSE ]

\* Player._consume_buffered_jump: the player after the call and the value
\* returned
consume_buffered_jump(p) ==
  IF p.jump_buffer_timer > 0 /\ (p.on_ground \/ p.coyote_timer > 0)
    THEN [ p |-> [p EXCEPT !.vel.y = JUMP_FORCE,
                           !.on_ground = FALSE,
                           !.jump_buffer_timer = 0,
                           !.coyote_timer = 0,
                           !.jumps_left = 1],
           ret |-> TRUE ]
  ELSE IF p.jump_buffer_timer > 0 /\ p.jumps_left > 0
    THEN [ p |-> [p EXCEPT !.vel.y = AIR_JUMP_FORCE,
                           !.jump_buffer_timer = 0,
                           !.jumps_left = p.jumps_left - 1],
           ret |-> TRUE ]
  ELSE [ p |-> p, ret |-> FALSE ]

\* (mutant) the jump buffer does not run down
decay_timers_keeps_buffer(p, dt) ==
  [p EXCEPT !.coyote_timer = Max(0, p.coyote_timer - dt)]

\* lines 117-119: the timers run down by dt and stop at 0
decay_timers(p, dt) ==
  [p EXCEPT !.jump_buffer_timer = Max(0, p.jump_buffer_timer - dt),
            !.coyote_timer = Max(0, p.coyote_timer - dt)]

\* lines 121-126: gravity, the horizontal move, its collisions and the clamp
move_x(p, plats, length) ==
  LET p1 == [p EXCEPT !.vel.y = apply_gravity(p.vel.y)]
      p2 == [p1 EXCEPT !.rect.x = p1.rect.x + int10(p1.vel.x)]
      p3 == resolve_collisions(p2, "x", plats, 1)
  IN  [p3 EXCEPT !.rect.x = clamp_x(p3.rect.x, p3.rect.w, length)]

\* lines 128-130: the vertical move and its collisions
move_y(p, plats) ==
  LET p1 == [p EXCEPT !.rect.y = p.rect.y + int10(p.vel.y), !.on_ground = FALSE]
  IN  resolve_collisions(p1, "y", plats, 1)

\* (mutant) the air jumps are refilled in every update
refresh_coyote_refills_in_air(p, was) ==
  IF p.on_ground THEN [p EXCEPT !.jumps_left = 2, !.coyote_timer = COYOTE_TIME]
  ELSE IF was THEN [p EXCEPT !.jumps_left = 2, !.coyote_timer = COYOTE_TIME]
  ELSE [p EXCEPT !.jumps_left = 2]

\* lines 133-137: the coyote timer and the air jumps are refreshed
refresh_coyote(p, was) ==
  IF p.on_ground THEN [p EXCEPT !.jumps_left = 2, !.coyote_timer = COYOTE_TIME]
  ELSE IF was THEN [p EXCEPT !.coyote_timer = COYOTE_TIME]
  ELSE p

\* Player.update(dt, platforms, level_length): the player after the call,
\* the value returned, and the locals was_on_ground and on_ground (as tested
\* at line 133)
update(p, dt, plats, length) ==
  LET was == p.on_ground
      moved == move_y(move_x(decay_timers(p, dt), plats, length), plats)
      out == consume_buffered_jump(refresh_coyote(moved, was))
  IN  [ p |-> out.p, ret |-> out.ret, was_on_ground |-> was,
        landed |-> moved.on_ground ]

(***************************************************************************)
(* TriggerSpike.update (hazards.py)                                        *)
(***************************************************************************)
\* int(self.rise_speed * dt) with dt in milliseconds
rise_step(spike, dt) == (spike.rise_speed * dt) \div 1000

\* the truth value of a pygame.Rect: false when its width or height is 0
RectTruthy(r) == r.w # 0 /\ r.h # 0

\* (mutant) the spike is active only while the player is in the trigger zone
TriggerSpike_update_while_inside(spike, dt, player_rect) ==
  LET s1 == [spike EXCEPT !.active = RectTruthy(player_rect)
                                     /\ colliderect(player_rect, spike.trigger_rect)]
  IN  IF s1.active /\ s1.rect.y > s1.target_y
        THEN [s1 EXCEPT !.rect.y = Max(s1.target_y, s1.rect.y - rise_step(s1, dt))]
        ELSE s1

TriggerSpike_update(spike, dt, player_rect) ==
  LET s1 == IF ~spike.active /\ RectTruthy(player_rect)
                              /\ colliderect(player_rect, spike.trigger_rect)
              THEN [spike EXCEPT !.active = TRUE]
              ELSE spike
  IN  IF s1.active /\ s1.rect.y > s1.target_y
        THEN [s1 EXCEPT !.rect.y = Max(s1.target_y, s1.rect.y - rise_step(s1, dt))]
        ELSE s1

(***************************************************************************)
(* The other hazards' update and collides (hazards.py)                     *)
(***************************************************************************)
\* pygame.Rect.inflate(dx, dy): the rectangle grows around its centre; the
\* halves are C integer divisions
half(d) == IF d >= 0 THEN d \div 2 ELSE -((-d) \div 2)
inflate(r, dx, dy) ==
  [x |-> r.x - half(dx), y |-> r.y - half(dy), w |-> r.w + dx, h |-> r.h + dy]

\* (mutant) the tested rectangle is not shrunk
generous_unshrunk(r) == inflate(r, 0, 0)

\* the rectangle every collides() but the crusher's tests against the
\* hazard: the argument shrunk by inflate(-8, -8)
generous(r) == inflate(r, -8, -8)

\* int(base + offset) for an integer base and a float offset that is not a
\* whole number, given floor(offset): int() truncates toward zero
int_sum(base, floor_offset) ==
  IF base + floor_offset >= 0 THEN base + floor_offset
  ELSE base + floor_offset + 1

\* floor(math.sin(timer * speed) * amplitude) for timer = 0.05, 0.10, ...
\* seconds, by speed (tenths of a radian per second) and amplitude
OscillatingHazard_offsets(speed, amplitude) ==
  CASE speed = 22 /\ amplitude = 80 ->
       << 8, 17, 25, 34, 41, 49, 55, 61, 66, 71, 74, 77, 79, 79, 79, 78,
          76, 73, 69, 64, 59, 52, 45, 38, 30, 22, 13, 4, -4, -13, -22,
          -30, -38, -46, -53, -59, -65, -69, -73, -77, -79, -80, -80,
          -80, -78, -76, -72, -68, -63, -57, -50, -43, -36, -27, -19,
          -10, -2, 7, 16, 24, 33, 40, 48, 54, 60, 66, 70, 74, 77, 79, 79,
          79 >>
    [] speed = 25 /\ amplitude = 60 ->
       << 7, 14, 21, 28, 35, 40, 46, 50, 54, 56, 58, 59, 59, 59, 57, 54,
          51, 46, 41, 35, 29, 22, 15, 8, 0, -7, -14, -22, -28, -35, -41,
          -46, -50, -54, -57, -59, -60, -60, -60, -58, -55, -52, -48,
          -43, -37, -31, -24, -17, -10, -2, 5, 12, 20, 27, 33, 39, 44,
          49, 53, 56, 58, 59, 59, 59, 57, 55, 52, 47, 43, 37, 31, 24 >>
    [] speed = 25 /\ amplitude = 100 ->
       << 12, 24, 36, 47, 58, 68, 76, 84, 90, 94, 98, 99, 99, 98, 95, 90,
          85, 77, 69, 59, 49, 38, 26, 14, 1, -11, -24, -36, -47, -58,
          -67, -76, -84, -90, -95, -98, -100, -100, -99, -96, -92, -86,
          -79, -71, -62, -51, -40, -28, -16, -4, 9, 21, 33, 45, 55, 65,
          74, 82, 88, 93, 97, 99, 99, 98, 96, 92, 86, 79, 71, 62, 52, 41 >>
    [] speed = 25 /\ amplitude = 120 ->
       << 14, 29, 43, 57, 70, 81, 92, 100, 108, 113, 117, 119, 119, 118,
          114, 109, 102, 93, 83, 71, 59, 45, 31, 16, 1, -13, -28, -43,
          -56, -69, -81, -91, -100, -108, -114, -118, -120, -120, -119,
          -116, -110, -104, -95, -85, -74, -61, -48, -34, -19, -4, 11,
          25, 40, 54, 66, 78, 89, 98, 106, 112, 116, 119, 119, 118, 115,
          110, 104, 95, 86, 74, 62, 49 >>
    [] speed = 30 /\ amplitude = 40 ->
       << 5, 11, 17, 22, 27, 31, 34, 37, 39, 39, 39, 38, 37, 34, 31, 27,
          22, 17, 11, 5, -1, -7, -13, -18, -23, -28, -32, -35, -38, -40,
          -40, -40, -39, -38, -35, -31, -27, -23, -17, -12, -6, 0, 6, 12,
          18, 23, 27, 31, 35, 37, 39, 39, 39, 38, 36, 34, 30, 26, 21, 16,
          10, 4, -2, -7, -13, -19, -24, -28, -32, -36, -38, -40 >>
    [] speed = 30 /\ amplitude = 80 ->
       << 11, 23, 34, 45, 54, 62, 69, 74, 78, 79, 79, 77, 74, 69, 62, 54,
          44, 34, 22, 11, -1, -13, -25, -36, -46, -56, -64, -70, -75,
          -79, -80, -80, -78, -75, -69, -62, -54, -45, -34, -23, -11, 1,
          13, 24, 36, 46, 55, 63, 70, 75, 78, 79, 79, 77, 73, 68, 61, 53,
          43, 32, 21, 9, -3, -14, -26, -37, -47, -56, -64, -71, -76, -79 >>
    [] speed = 30 /\ amplitude = 100 ->
       << 14, 29, 43, 56, 68, 78, 86, 93, 97, 99, 99, 97, 92, 86, 77, 67,
          55, 42, 28, 14, -1, -16, -31, -45, -58, -69, -79, -88, -94,
          -98, -100, -100, -98, -93, -86, -78, -67, -56, -42, -28, -14,
          1, 16, 31, 45, 57, 69, 79, 87, 93, 97, 99, 99, 96, 92, 85, 76,
          66, 54, 41, 27, 12, -3, -18, -32, -46, -59, -70, -80, -88, -95,
          -99 >>
    [] speed = 30 /\ amplitude = 120 ->
       << 17, 35, 52, 67, 81, 93, 104, 111, 117, 119, 119, 116, 111, 103,
          93, 81, 66, 51, 34, 16, -2, -19, -37, -54, -69, -83, -95, -105,
          -113, -118, -120, -120, -117, -112, -104, -93, -81, -67, -51,
          -34, -16, 2, 19, 37, 54, 69, 83, 95, 105, 112, 117, 119, 119,
          116, 110, 102, 92, 79, 65, 49, 32, 14, -4, -21, -39, -55, -71,
          -84, -96, -106, -113, -118 >>
    [] speed = 30 /\ amplitude = 140 ->
       << 20, 41, 60, 79, 95, 109, 121, 130, 136, 139, 139, 136, 130,
          120, 108, 94, 78, 59, 40, 19, -2, -23, -43, -62, -81, -97,
          -111, -123, -131, -137, -140, -140, -137, -130, -121, -109,
          -94, -78, -59, -40, -19, 2, 23, 43, 63, 80, 97, 111, 122, 131,
          137, 139, 139, 135, 129, 119, 107, 92, 76, 57, 37, 17, -4, -25,
          -45, -65, -82, -98, -112, -124, -132, -138 >>
    [] speed = 30 /\ amplitude = 250 ->
       << 37, 73, 108, 141, 170, 195, 216, 233, 243, 249, 249, 243, 232,
          215, 194, 168, 139, 106, 71, 35, -3, -40, -76, -111, -143,
          -172, -198, -218, -234, -245, -250, -250, -243, -232, -215,
          -194, -168, -138, -105, -70, -34, 4, 41, 77, 112, 144, 173,
          198, 218, 234, 244, 249, 248, 242, 230, 213, 191, 165, 135,
          103, 67, 31, -7, -44, -80, -115, -147, -175, -200, -220, -236,
          -246 >>
    [] speed = 35 /\ amplitude = 120 ->
       << 20, 41, 60, 77, 92, 104, 112, 118, 119, 118, 112, 103, 91, 76,
          59, 40, 19, -2, -22, -43, -62, -79, -93, -105, -114, -119,
          -120, -118, -113, -104, -91, -76, -59, -40, -19, 2, 22, 43, 61,
          78, 93, 105, 113, 118, 119, 117, 111, 102, 90, 74, 57, 38, 17,
          -4, -24, -44, -63, -80, -95, -106, -114, -119, -120, -118,
          -112, -103, -90, -75, -57, -38, -17, 4 >>
    [] speed = 35 /\ amplitude = 200 ->
       << 34, 68, 100, 128, 153, 173, 188, 197, 199, 196, 187, 172, 152,
          127, 98, 66, 33, -2, -37, -71, -102, -131, -155, -175, -189,
          -198, -200, -197, -187, -172, -152, -127, -98, -66, -32, 3, 38,
          71, 103, 131, 155, 175, 189, 197, 199, 196, 186, 170, 150, 124,
          95, 63, 29, -6, -40, -74, -105, -133, -157, -176, -190, -198,
          -200, -196, -186, -171, -150, -124, -95, -63, -29, 6 >>
    [] speed = 40 /\ amplitude = 80 ->
       << 15, 31, 45, 57, 67, 74, 78, 79, 77, 72, 64, 54, 41, 26, 11, -5,
          -21, -36, -49, -61, -70, -77, -80, -80, -77, -71, -62, -51,
          -38, -23, -7, 9, 24, 39, 52, 63, 71, 77, 79, 79, 75, 68, 58,
          46, 32, 17, 1, -14, -30, -44, -56, -67, -74, -79, -80, -79,
          -74, -66, -56, -43, -29, -14, 2, 18, 33, 47, 59, 68, 75, 79,
          79, 77 >>
    [] speed = 40 /\ amplitude = 100 ->
       << 19, 38, 56, 71, 84, 93, 98, 99, 97, 90, 80, 67, 51, 33, 14, -6,
          -26, -45, -62, -76, -88, -96, -100, -100, -96, -89, -78, -64,
          -47, -28, -9, 11, 31, 49, 65, 79, 89, 96, 99, 98, 94, 85, 73,
          58, 41, 22, 2, -18, -37, -55, -70, -83, -93, -99, -100, -98,
          -92, -83, -70, -54, -36, -17, 3, 23, 42, 59, 74, 85, 94, 99,
          99, 96 >>
    [] speed = 40 /\ amplitude = 150 ->
       << 29, 58, 84, 107, 126, 139, 147, 149, 146, 136, 121, 101, 77,
          50, 21, -9, -39, -67, -92, -114, -131, -143, -150, -150, -144,
          -133, -116, -95, -70, -42, -13, 17, 46, 74, 98, 119, 134, 145,
          149, 148, 141, 128, 110, 87, 61, 33, 3, -27, -55, -82, -105,
          -125, -139, -148, -150, -147, -138, -124, -105, -81, -54, -25,
          5, 34, 63, 88, 111, 128, 141, 148, 149, 144 >>
    [] speed = 40 /\ amplitude = 300 ->
       << 59, 116, 169, 215, 252, 279, 295, 299, 292, 272, 242, 202, 154,
          100, 42, -18, -77, -133, -184, -228, -262, -286, -299, -299,
          -288, -266, -232, -190, -140, -84, -25, 34, 93, 148, 197, 238,
          269, 290, 299, 296, 282, 256, 220, 175, 123, 66, 7, -53, -110,
          -164, -210, -249, -277, -295, -300, -294, -276, -247, -209,
          -161, -108, -50, 10, 69, 126, 177, 222, 257, 283, 297, 299,
          289 >>
    [] speed = 45 /\ amplitude = 60 ->
       << 13, 26, 37, 46, 54, 58, 59, 58, 53, 46, 37, 25, 12, -1, -14,
          -27, -38, -48, -55, -59, -60, -59, -54, -47, -37, -26, -13, 1,
          14, 27, 38, 47, 54, 58, 59, 58, 53, 46, 36, 24, 11, -2, -15,
          -28, -39, -48, -55, -59, -60, -59, -54, -46, -36, -25, -12, 2,
          15, 27, 39, 48, 54, 58, 59, 57, 53, 45, 35, 23, 10, -3, -16,
          -29 >>
    [] speed = 45 /\ amplitude = 120 ->
       << 26, 52, 74, 93, 108, 117, 119, 116, 107, 93, 74, 51, 25, -2,
          -28, -54, -76, -95, -109, -118, -120, -117, -108, -93, -74,
          -51, -25, 2, 28, 54, 76, 95, 109, 117, 119, 116, 106, 92, 72,
          49, 23, -4, -30, -55, -78, -96, -110, -118, -120, -117, -107,
          -92, -72, -49, -23, 4, 30, 55, 78, 96, 109, 117, 119, 115, 106,
          90, 70, 47, 21, -6, -32, -57 >>
    [] speed = 45 /\ amplitude = 150 ->
       << 33, 65, 93, 117, 135, 146, 149, 146, 134, 116, 92, 64, 32, -2,
          -35, -67, -95, -119, -136, -147, -150, -146, -135, -116, -92,
          -63, -32, 2, 35, 67, 95, 119, 136, 146, 149, 145, 133, 115, 90,
          61, 29, -4, -38, -69, -97, -120, -137, -148, -150, -146, -134,
          -115, -90, -61, -29, 5, 38, 69, 97, 120, 137, 147, 149, 144,
          132, 113, 88, 59, 27, -7, -40, -71 >>
    [] speed = 50 /\ amplitude = 60 ->
       << 14, 28, 40, 50, 56, 59, 59, 54, 46, 35, 22, 8, -7, -22, -35,
          -46, -54, -59, -60, -58, -52, -43, -31, -17, -2, 12, 27, 39,
          49, 56, 59, 59, 55, 47, 37, 24, 10, -5, -20, -33, -45, -53,
          -59, -60, -59, -53, -44, -33, -19, -4, 10, 25, 37, 48, 55, 59,
          59, 56, 49, 39, 26, 12, -3, -18, -31, -43, -52, -58, -60, -59,
          -54, -46 >>
    [] speed = 50 /\ amplitude = 120 ->
       << 29, 57, 81, 100, 113, 119, 118, 109, 93, 71, 45, 16, -13, -43,
          -69, -91, -108, -118, -120, -116, -104, -85, -61, -34, -4, 25,
          54, 78, 98, 112, 119, 118, 110, 95, 74, 49, 20, -10, -39, -66,
          -89, -106, -117, -120, -117, -106, -88, -65, -38, -8, 21, 50,
          75, 96, 111, 118, 119, 112, 98, 78, 53, 24, -6, -35, -62, -86,
          -104, -116, -120, -118, -107, -91 >>
    [] speed = 50 /\ amplitude = 150 ->
       << 37, 71, 102, 126, 142, 149, 147, 136, 116, 89, 57, 21, -17,
          -53, -86, -114, -135, -147, -150, -144, -129, -106, -77, -42,
          -5, 32, 67, 98, 123, 140, 149, 148, 138, 119, 93, 61, 26, -12,
          -48, -82, -111, -132, -146, -150, -146, -132, -110, -81, -47,
          -10, 27, 63, 94, 120, 138, 148, 149, 140, 122, 97, 66, 30, -7,
          -44, -78, -107, -130, -145, -150, -147, -134, -113 >>
    [] speed = 50 /\ amplitude = 200 ->
       << 49, 95, 136, 168, 189, 199, 196, 181, 155, 119, 76, 28, -22,
          -71, -115, -152, -179, -196, -200, -192, -172, -142, -102, -56,
          -7, 43, 90, 131, 164, 187, 198, 197, 184, 159, 124, 82, 34,
          -16, -64, -109, -147, -176, -194, -200, -194, -176, -146, -108,
          -63, -14, 36, 84, 126, 160, 185, 198, 198, 186, 163, 130, 88,
          41, -9, -58, -104, -143, -173, -193, -200, -196, -179, -151 >>
    [] speed = 55 /\ amplitude = 180 ->
       << 48, 94, 132, 160, 176, 179, 168, 145, 111, 68, 20, -29, -76,
          -118, -150, -172, -180, -175, -157, -127, -88, -42, 7, 56, 100,
          137, 163, 177, 178, 166, 140, 105, 61, 13, -36, -83, -123,
          -154, -174, -180, -174, -154, -122, -81, -35, 15, 63, 106, 141,
          166, 178, 177, 163, 136, 99, 54, 5, -44, -89, -129, -158, -176,
          -180, -171, -149, -116, -75, -27, 22, 70, 112, 146 >>
    [] speed = 60 /\ amplitude = 150 ->
       << 44, 84, 117, 139, 149, 146, 129, 101, 64, 21, -24, -67, -104,
          -131, -147, -150, -139, -116, -83, -42, 2, 46, 86, 119, 140,
          149, 145, 128, 99, 61, 18, -27, -69, -105, -132, -148, -150,
          -138, -115, -81, -40, 5, 49, 88, 120, 141, 149, 144, 126, 97,
          59, 16, -29, -71, -107, -134, -148, -149, -137, -113, -79, -38,
          7, 51, 90, 122, 142, 149, 144, 125, 95, 57 >>

\* (floor(math.sin(angle) * length), floor(math.cos(angle) * length)) with
\* angle = math.sin(time * speed) * math.radians(swing_degrees), for time =
\* 0.05, 0.10, ... seconds
SwingingAxe_offsets(speed, swing_degrees, length) ==
  CASE speed = 15 /\ swing_degrees = 60 /\ length = 120 ->
       << <<9, 119>>, <<18, 118>>, <<27, 116>>, <<36, 114>>, <<44, 111>>,
          <<52, 107>>, <<60, 103>>, <<66, 99>>, <<73, 95>>, <<78, 90>>,
          <<83, 86>>, <<87, 81>>, <<91, 77>>, <<94, 73>>, <<97, 70>>,
          <<99, 67>>, <<101, 64>>, <<102, 62>>, <<103, 61>>, <<103, 60>>,
          <<103, 60>>, <<103, 60>>, <<103, 61>>, <<102, 62>>,
          <<100, 64>>, <<99, 67>>, <<96, 70>>, <<94, 74>>, <<91, 78>>,
          <<87, 82>>, <<82, 86>>, <<77, 91>>, <<72, 95>>, <<66, 100>>,
          <<59, 104>>, <<51, 108>>, <<43, 111>>, <<35, 114>>,
          <<26, 116>>, <<17, 118>>, <<8, 119>>, <<-2, 119>>,
          <<-11, 119>>, <<-20, 118>>, <<-29, 116>>, <<-38, 113>>,
          <<-46, 110>>, <<-54, 107>>, <<-61, 103>>, <<-68, 99>>,
          <<-74, 94>>, <<-80, 90>>, <<-84, 85>>, <<-89, 81>>,
          <<-92, 77>>, <<-95, 73>>, <<-98, 69>>, <<-100, 66>>,
          <<-102, 64>>, <<-103, 62>>, <<-104, 61>>, <<-104, 60>>,
          <<-104, 60>>, <<-104, 60>>, <<-104, 61>>, <<-103, 63>>,
          <<-101, 65>>, <<-99, 67>>, <<-97, 71>>, <<-94, 74>>,
          <<-91, 78>>, <<-87, 82>> >>
    [] speed = 18 /\ swing_degrees = 180 /\ length = 140 ->
       << <<39, 134>>, <<74, 118>>, <<104, 93>>, <<125, 62>>,
          <<137, 28>>, <<139, -7>>, <<134, -39>>, <<122, -68>>,
          <<106, -91>>, <<88, -109>>, <<68, -122>>, <<50, -131>>,
          <<34, -136>>, <<20, -139>>, <<10, -140>>, <<3, -140>>,
          <<0, -140>>, <<0, -140>>, <<4, -140>>, <<11, -140>>,
          <<22, -139>>, <<35, -136>>, <<52, -130>>, <<70, -121>>,
          <<89, -108>>, <<108, -89>>, <<124, -65>>, <<135, -36>>,
          <<139, -4>>, <<136, 31>>, <<123, 65>>, <<101, 96>>,
          <<71, 120>>, <<35, 135>>, <<-4, 139>>, <<-43, 133>>,
          <<-78, 116>>, <<-107, 90>>, <<-127, 59>>, <<-138, 25>>,
          <<-140, -10>>, <<-134, -42>>, <<-122, -70>>, <<-105, -93>>,
          <<-87, -111>>, <<-68, -123>>, <<-50, -132>>, <<-34, -137>>,
          <<-20, -139>>, <<-10, -140>>, <<-4, -140>>, <<-1, -140>>,
          <<-1, -140>>, <<-5, -140>>, <<-13, -140>>, <<-24, -139>>,
          <<-38, -135>>, <<-55, -130>>, <<-73, -120>>, <<-92, -106>>,
          <<-110, -87>>, <<-126, -63>>, <<-137, -33>>, <<-140, 0>>,
          <<-136, 34>>, <<-122, 68>>, <<-100, 98>>, <<-69, 122>>,
          <<-32, 136>>, <<7, 139>>, <<46, 132>>, <<80, 114>> >>
    [] speed = 20 /\ swing_degrees = 45 /\ length = 100 ->
       << <<7, 99>>, <<15, 98>>, <<23, 97>>, <<30, 95>>, <<36, 92>>,
          <<42, 90>>, <<48, 87>>, <<53, 84>>, <<57, 81>>, <<61, 78>>,
          <<64, 76>>, <<66, 74>>, <<68, 72>>, <<69, 71>>, <<70, 70>>,
          <<70, 70>>, <<70, 71>>, <<69, 72>>, <<67, 73>>, <<65, 75>>,
          <<62, 77>>, <<59, 80>>, <<55, 83>>, <<50, 86>>, <<45, 89>>,
          <<39, 91>>, <<32, 94>>, <<26, 96>>, <<18, 98>>, <<11, 99>>,
          <<3, 99>>, <<-5, 99>>, <<-13, 99>>, <<-20, 97>>, <<-28, 96>>,
          <<-35, 94>>, <<-41, 91>>, <<-47, 88>>, <<-52, 85>>,
          <<-57, 82>>, <<-60, 80>>, <<-64, 77>>, <<-66, 75>>,
          <<-68, 73>>, <<-70, 71>>, <<-71, 71>>, <<-71, 70>>,
          <<-71, 70>>, <<-70, 71>>, <<-69, 72>>, <<-67, 74>>,
          <<-64, 76>>, <<-61, 79>>, <<-58, 82>>, <<-53, 85>>,
          <<-48, 87>>, <<-42, 90>>, <<-36, 93>>, <<-29, 95>>,
          <<-22, 97>>, <<-15, 98>>, <<-7, 99>>, <<1, 99>>, <<9, 99>>,
          <<16, 98>>, <<24, 97>>, <<31, 94>>, <<37, 92>>, <<43, 89>>,
          <<49, 86>>, <<54, 84>>, <<58, 81>> >>
    [] speed = 20 /\ swing_degrees = 80 /\ length = 140 ->
       << <<19, 138>>, <<38, 134>>, <<56, 128>>, <<72, 119>>,
          <<86, 109>>, <<99, 98>>, <<109, 87>>, <<117, 75>>, <<124, 64>>,
          <<129, 53>>, <<132, 44>>, <<134, 37>>, <<136, 31>>,
          <<137, 27>>, <<137, 24>>, <<137, 24>>, <<137, 25>>,
          <<136, 29>>, <<135, 34>>, <<133, 41>>, <<130, 50>>,
          <<126, 59>>, <<120, 70>>, <<113, 82>>, <<103, 93>>,
          <<92, 105>>, <<78, 115>>, <<63, 124>>, <<45, 132>>,
          <<27, 137>>, <<8, 139>>, <<-12, 139>>, <<-31, 136>>,
          <<-49, 131>>, <<-66, 123>>, <<-82, 114>>, <<-95, 103>>,
          <<-106, 91>>, <<-115, 80>>, <<-122, 68>>, <<-128, 58>>,
          <<-132, 48>>, <<-135, 40>>, <<-136, 33>>, <<-138, 28>>,
          <<-138, 25>>, <<-138, 24>>, <<-138, 25>>, <<-138, 27>>,
          <<-137, 32>>, <<-135, 38>>, <<-133, 46>>, <<-129, 55>>,
          <<-124, 66>>, <<-117, 77>>, <<-109, 89>>, <<-98, 100>>,
          <<-85, 111>>, <<-70, 121>>, <<-54, 129>>, <<-36, 135>>,
          <<-17, 139>>, <<3, 139>>, <<22, 138>>, <<41, 133>>,
          <<58, 126>>, <<74, 118>>, <<89, 107>>, <<101, 96>>,
          <<111, 85>>, <<119, 73>>, <<125, 62>> >>
    [] speed = 20 /\ swing_degrees = 90 /\ length = 150 ->
       << <<23, 148>>, <<46, 142>>, <<67, 134>>, <<86, 122>>,
          <<102, 109>>, <<116, 94>>, <<127, 79>>, <<135, 64>>,
          <<141, 50>>, <<145, 36>>, <<147, 25>>, <<149, 15>>, <<149, 8>>,
          <<149, 3>>, <<149, 0>>, <<149, 0>>, <<149, 1>>, <<149, 6>>,
          <<149, 12>>, <<148, 21>>, <<146, 31>>, <<143, 44>>,
          <<138, 58>>, <<130, 73>>, <<121, 88>>, <<108, 103>>,
          <<93, 117>>, <<75, 129>>, <<55, 139>>, <<32, 146>>, <<9, 149>>,
          <<-14, 149>>, <<-37, 145>>, <<-59, 138>>, <<-79, 127>>,
          <<-97, 115>>, <<-111, 100>>, <<-123, 85>>, <<-133, 70>>,
          <<-140, 55>>, <<-144, 42>>, <<-147, 30>>, <<-149, 19>>,
          <<-150, 11>>, <<-150, 5>>, <<-150, 1>>, <<-150, 0>>,
          <<-150, 0>>, <<-150, 4>>, <<-150, 9>>, <<-149, 17>>,
          <<-148, 27>>, <<-145, 39>>, <<-141, 52>>, <<-135, 66>>,
          <<-126, 82>>, <<-115, 97>>, <<-101, 111>>, <<-84, 124>>,
          <<-64, 135>>, <<-43, 143>>, <<-20, 148>>, <<3, 149>>,
          <<27, 147>>, <<49, 141>>, <<70, 132>>, <<89, 120>>,
          <<105, 107>>, <<118, 92>>, <<128, 76>>, <<136, 61>>,
          <<142, 47>> >>
    [] speed = 20 /\ swing_degrees = 120 /\ length = 180 ->
       << <<37, 176>>, <<72, 164>>, <<104, 146>>, <<131, 123>>,
          <<151, 96>>, <<166, 68>>, <<175, 39>>, <<179, 12>>,
          <<179, -13>>, <<176, -35>>, <<172, -53>>, <<167, -67>>,
          <<162, -78>>, <<158, -86>>, <<156, -90>>, <<155, -90>>,
          <<157, -88>>, <<160, -82>>, <<165, -72>>, <<170, -59>>,
          <<174, -43>>, <<178, -22>>, <<179, 1>>, <<177, 27>>,
          <<171, 56>>, <<158, 84>>, <<140, 112>>, <<116, 137>>,
          <<86, 157>>, <<52, 172>>, <<15, 179>>, <<-22, 178>>,
          <<-59, 170>>, <<-92, 154>>, <<-121, 133>>, <<-144, 108>>,
          <<-162, 80>>, <<-173, 51>>, <<-179, 23>>, <<-180, -3>>,
          <<-179, -26>>, <<-175, -46>>, <<-170, -62>>, <<-165, -74>>,
          <<-160, -83>>, <<-158, -88>>, <<-156, -90>>, <<-157, -89>>,
          <<-160, -85>>, <<-164, -77>>, <<-168, -65>>, <<-174, -50>>,
          <<-178, -31>>, <<-180, -9>>, <<-180, 16>>, <<-175, 44>>,
          <<-165, 72>>, <<-149, 101>>, <<-127, 127>>, <<-100, 150>>,
          <<-68, 167>>, <<-32, 177>>, <<6, 179>>, <<43, 174>>,
          <<78, 162>>, <<109, 143>>, <<134, 119>>, <<154, 91>>,
          <<168, 63>>, <<176, 34>>, <<179, 7>>, <<179, -17>> >>
    [] speed = 20 /\ swing_degrees = 180 /\ length = 180 ->
       << <<55, 171>>, <<105, 146>>, <<144, 107>>, <<169, 61>>,
          <<179, 11>>, <<176, -37>>, <<161, -79>>, <<139, -114>>,
          <<113, -140>>, <<85, -159>>, <<60, -170>>, <<38, -176>>,
          <<20, -179>>, <<8, -180>>, <<1, -180>>, <<0, -180>>,
          <<4, -180>>, <<14, -180>>, <<30, -178>>, <<50, -173>>,
          <<74, -164>>, <<101, -149>>, <<128, -126>>, <<153, -95>>,
          <<171, -55>>, <<179, -9>>, <<175, 40>>, <<156, 89>>,
          <<122, 131>>, <<77, 162>>, <<23, 178>>, <<-33, 176>>,
          <<-86, 158>>, <<-130, 125>>, <<-161, 81>>, <<-178, 32>>,
          <<-180, -17>>, <<-169, -62>>, <<-150, -101>>, <<-125, -130>>,
          <<-98, -152>>, <<-71, -166>>, <<-47, -174>>, <<-28, -178>>,
          <<-13, -180>>, <<-4, -180>>, <<-1, -180>>, <<-3, -180>>,
          <<-10, -180>>, <<-24, -179>>, <<-42, -176>>, <<-65, -169>>,
          <<-91, -156>>, <<-118, -137>>, <<-144, -109>>, <<-165, -73>>,
          <<-178, -29>>, <<-179, 19>>, <<-167, 69>>, <<-139, 114>>,
          <<-98, 151>>, <<-47, 173>>, <<9, 179>>, <<64, 168>>,
          <<112, 140>>, <<149, 100>>, <<172, 53>>, <<179, 3>>,
          <<174, -44>>, <<158, -86>>, <<135, -119>>, <<108, -144>> >>
    [] speed = 22 /\ swing_degrees = 120 /\ length = 180 ->
       << <<41, 175>>, <<79, 161>>, <<112, 140>>, <<140, 113>>,
          <<159, 82>>, <<172, 50>>, <<178, 20>>, <<179, -8>>,
          <<177, -33>>, <<172, -53>>, <<166, -69>>, <<161, -80>>,
          <<157, -87>>, <<155, -90>>, <<156, -89>>, <<159, -85>>,
          <<163, -76>>, <<169, -62>>, <<174, -45>>, <<178, -22>>,
          <<179, 4>>, <<176, 33>>, <<167, 64>>, <<152, 96>>,
          <<129, 125>>, <<98, 150>>, <<63, 168>>, <<23, 178>>,
          <<-19, 179>>, <<-59, 170>>, <<-95, 152>>, <<-126, 128>>,
          <<-150, 99>>, <<-167, 68>>, <<-177, 37>>, <<-180, 7>>,
          <<-179, -20>>, <<-176, -42>>, <<-170, -60>>, <<-165, -74>>,
          <<-160, -84>>, <<-157, -89>>, <<-156, -90>>, <<-158, -88>>,
          <<-161, -81>>, <<-166, -70>>, <<-172, -55>>, <<-177, -35>>,
          <<-180, -11>>, <<-180, 16>>, <<-174, 47>>, <<-162, 78>>,
          <<-143, 109>>, <<-117, 137>>, <<-84, 159>>, <<-46, 174>>,
          <<-5, 179>>, <<36, 176>>, <<75, 163>>, <<109, 143>>,
          <<137, 116>>, <<157, 86>>, <<171, 54>>, <<178, 23>>,
          <<179, -5>>, <<177, -30>>, <<172, -51>>, <<167, -67>>,
          <<161, -79>>, <<158, -87>>, <<156, -90>>, <<156, -90>> >>
    [] speed = 22 /\ swing_degrees = 180 /\ length = 140 ->
       << <<47, 131>>, <<88, 108>>, <<119, 73>>, <<136, 32>>,
          <<139, -10>>, <<131, -49>>, <<114, -81>>, <<92, -106>>,
          <<68, -122>>, <<46, -132>>, <<28, -138>>, <<13, -140>>,
          <<4, -140>>, <<0, -140>>, <<1, -140>>, <<7, -140>>,
          <<19, -139>>, <<35, -136>>, <<56, -129>>, <<79, -116>>,
          <<102, -96>>, <<122, -68>>, <<136, -33>>, <<139, 8>>,
          <<130, 50>>, <<107, 89>>, <<71, 120>>, <<26, 137>>,
          <<-22, 138>>, <<-67, 123>>, <<-104, 94>>, <<-129, 55>>,
          <<-140, 13>>, <<-138, -28>>, <<-125, -64>>, <<-105, -93>>,
          <<-83, -114>>, <<-59, -127>>, <<-39, -135>>, <<-22, -139>>,
          <<-9, -140>>, <<-2, -140>>, <<-1, -140>>, <<-4, -140>>,
          <<-13, -140>>, <<-27, -138>>, <<-45, -133>>, <<-67, -124>>,
          <<-90, -108>>, <<-112, -85>>, <<-130, -53>>, <<-140, -15>>,
          <<-138, 27>>, <<-122, 68>>, <<-93, 104>>, <<-53, 129>>,
          <<-6, 139>>, <<41, 133>>, <<84, 111>>, <<116, 78>>,
          <<134, 37>>, <<139, -6>>, <<132, -45>>, <<116, -78>>,
          <<95, -103>>, <<71, -121>>, <<49, -131>>, <<30, -137>>,
          <<15, -140>>, <<5, -140>>, <<0, -140>>, <<0, -140>> >>
    [] speed = 25 /\ swing_degrees = 60 /\ length = 120 ->
       << <<15, 118>>, <<30, 115>>, <<44, 111>>, <<57, 105>>, <<69, 98>>,
          <<78, 90>>, <<86, 83>>, <<92, 76>>, <<97, 70>>, <<100, 65>>,
          <<102, 62>>, <<103, 60>>, <<103, 60>>, <<102, 61>>,
          <<100, 64>>, <<97, 69>>, <<93, 75>>, <<87, 82>>, <<79, 89>>,
          <<70, 97>>, <<59, 104>>, <<46, 110>>, <<32, 115>>, <<17, 118>>,
          <<2, 119>>, <<-14, 119>>, <<-29, 116>>, <<-44, 111>>,
          <<-57, 106>>, <<-68, 99>>, <<-78, 91>>, <<-86, 84>>,
          <<-92, 77>>, <<-97, 71>>, <<-101, 66>>, <<-103, 62>>,
          <<-104, 60>>, <<-104, 60>>, <<-104, 61>>, <<-102, 64>>,
          <<-99, 68>>, <<-94, 74>>, <<-89, 81>>, <<-81, 88>>,
          <<-72, 96>>, <<-61, 103>>, <<-49, 109>>, <<-35, 114>>,
          <<-20, 118>>, <<-5, 119>>, <<11, 119>>, <<26, 116>>,
          <<41, 112>>, <<54, 106>>, <<66, 100>>, <<76, 92>>, <<84, 85>>,
          <<91, 78>>, <<96, 71>>, <<99, 66>>, <<102, 62>>, <<103, 60>>,
          <<103, 60>>, <<103, 61>>, <<101, 63>>, <<98, 68>>, <<94, 73>>,
          <<89, 80>>, <<81, 87>>, <<73, 95>>, <<62, 102>>, <<50, 108>> >>
    [] speed = 25 /\ swing_degrees = 80 /\ length = 160 ->
       << <<27, 157>>, <<54, 150>>, <<78, 139>>, <<99, 125>>,
          <<116, 109>>, <<130, 92>>, <<140, 76>>, <<147, 61>>,
          <<152, 48>>, <<155, 38>>, <<156, 31>>, <<157, 28>>,
          <<157, 28>>, <<156, 31>>, <<155, 37>>, <<152, 47>>,
          <<148, 59>>, <<141, 74>>, <<131, 90>>, <<118, 107>>,
          <<101, 123>>, <<81, 137>>, <<57, 149>>, <<31, 156>>,
          <<3, 159>>, <<-25, 158>>, <<-51, 151>>, <<-76, 141>>,
          <<-97, 127>>, <<-115, 111>>, <<-129, 95>>, <<-140, 78>>,
          <<-147, 63>>, <<-152, 50>>, <<-155, 40>>, <<-157, 32>>,
          <<-158, 28>>, <<-158, 27>>, <<-158, 30>>, <<-156, 36>>,
          <<-154, 46>>, <<-150, 58>>, <<-143, 72>>, <<-134, 88>>,
          <<-121, 105>>, <<-105, 121>>, <<-85, 136>>, <<-61, 147>>,
          <<-35, 156>>, <<-8, 159>>, <<20, 158>>, <<47, 152>>,
          <<72, 142>>, <<94, 129>>, <<112, 113>>, <<127, 97>>,
          <<138, 80>>, <<145, 65>>, <<151, 52>>, <<154, 41>>,
          <<156, 33>>, <<157, 28>>, <<157, 27>>, <<157, 30>>,
          <<155, 35>>, <<153, 44>>, <<149, 56>>, <<143, 70>>,
          <<134, 86>>, <<122, 102>>, <<106, 119>>, <<87, 134>> >>
    [] speed = 25 /\ swing_degrees = 90 /\ length = 160 ->
       << <<31, 156>>, <<60, 148>>, <<87, 134>>, <<109, 116>>,
          <<127, 97>>, <<140, 76>>, <<149, 57>>, <<155, 39>>,
          <<158, 24>>, <<159, 12>>, <<159, 4>>, <<159, 0>>, <<159, 0>>,
          <<159, 4>>, <<159, 11>>, <<158, 22>>, <<155, 37>>, <<150, 54>>,
          <<141, 74>>, <<129, 94>>, <<112, 114>>, <<90, 132>>,
          <<64, 146>>, <<35, 156>>, <<4, 159>>, <<-28, 157>>,
          <<-57, 149>>, <<-84, 136>>, <<-107, 119>>, <<-126, 99>>,
          <<-139, 79>>, <<-149, 59>>, <<-155, 41>>, <<-158, 26>>,
          <<-160, 14>>, <<-160, 5>>, <<-160, 0>>, <<-160, 0>>,
          <<-160, 3>>, <<-160, 10>>, <<-159, 21>>, <<-157, 35>>,
          <<-152, 52>>, <<-144, 71>>, <<-132, 91>>, <<-115, 111>>,
          <<-94, 129>>, <<-68, 144>>, <<-40, 155>>, <<-9, 159>>,
          <<22, 158>>, <<53, 150>>, <<80, 138>>, <<103, 121>>,
          <<122, 102>>, <<137, 82>>, <<147, 62>>, <<153, 43>>,
          <<157, 28>>, <<159, 15>>, <<159, 6>>, <<159, 1>>, <<159, 0>>,
          <<159, 2>>, <<159, 9>>, <<158, 19>>, <<156, 33>>, <<152, 49>>,
          <<144, 68>>, <<132, 88>>, <<117, 109>>, <<96, 127>> >>
    [] speed = 25 /\ swing_degrees = 90 /\ length = 180 ->
       << <<35, 176>>, <<68, 166>>, <<97, 151>>, <<123, 131>>,
          <<143, 109>>, <<157, 86>>, <<168, 64>>, <<174, 44>>,
          <<177, 27>>, <<179, 14>>, <<179, 5>>, <<179, 0>>, <<179, 0>>,
          <<179, 4>>, <<179, 12>>, <<178, 25>>, <<175, 41>>, <<169, 61>>,
          <<159, 83>>, <<145, 106>>, <<126, 128>>, <<101, 148>>,
          <<72, 164>>, <<39, 175>>, <<4, 179>>, <<-31, 177>>,
          <<-64, 168>>, <<-95, 153>>, <<-121, 134>>, <<-141, 112>>,
          <<-157, 89>>, <<-168, 67>>, <<-174, 46>>, <<-178, 29>>,
          <<-180, 15>>, <<-180, 6>>, <<-180, 1>>, <<-180, 0>>,
          <<-180, 3>>, <<-180, 11>>, <<-179, 23>>, <<-176, 39>>,
          <<-171, 58>>, <<-162, 80>>, <<-148, 103>>, <<-129, 125>>,
          <<-106, 146>>, <<-77, 162>>, <<-45, 174>>, <<-10, 179>>,
          <<25, 178>>, <<59, 169>>, <<90, 155>>, <<116, 136>>,
          <<138, 115>>, <<154, 92>>, <<165, 69>>, <<173, 49>>,
          <<177, 31>>, <<179, 17>>, <<179, 7>>, <<179, 1>>, <<179, 0>>,
          <<179, 3>>, <<179, 10>>, <<178, 21>>, <<176, 37>>, <<171, 56>>,
          <<162, 77>>, <<149, 100>>, <<131, 122>>, <<108, 143>> >>
    [] speed = 25 /\ swing_degrees = 100 /\ length = 140 ->
       << <<30, 136>>, <<58, 127>>, <<83, 112>>, <<103, 93>>,
          <<119, 73>>, <<129, 52>>, <<136, 32>>, <<139, 14>>,
          <<139, -1>>, <<139, -12>>, <<138, -20>>, <<137, -24>>,
          <<137, -24>>, <<138, -21>>, <<139, -14>>, <<139, -3>>,
          <<139, 12>>, <<136, 29>>, <<131, 49>>, <<121, 70>>,
          <<106, 91>>, <<86, 110>>, <<62, 125>>, <<34, 135>>, <<4, 139>>,
          <<-27, 137>>, <<-55, 128>>, <<-81, 114>>, <<-102, 96>>,
          <<-118, 75>>, <<-129, 54>>, <<-136, 34>>, <<-140, 16>>,
          <<-140, 1>>, <<-140, -11>>, <<-139, -19>>, <<-139, -24>>,
          <<-138, -25>>, <<-139, -22>>, <<-140, -15>>, <<-140, -4>>,
          <<-140, 10>>, <<-138, 27>>, <<-133, 46>>, <<-123, 67>>,
          <<-109, 88>>, <<-90, 107>>, <<-66, 123>>, <<-39, 134>>,
          <<-9, 139>>, <<22, 138>>, <<51, 130>>, <<77, 116>>, <<99, 98>>,
          <<115, 78>>, <<127, 57>>, <<134, 37>>, <<138, 18>>, <<139, 3>>,
          <<139, -10>>, <<138, -19>>, <<138, -24>>, <<137, -25>>,
          <<138, -22>>, <<139, -16>>, <<139, -6>>, <<139, 7>>,
          <<137, 24>>, <<132, 43>>, <<124, 64>>, <<110, 85>>,
          <<92, 105>> >>
    [] speed = 25 /\ swing_degrees = 360 /\ length = 250 ->
       << <<176, 177>>, <<249, 4>>, <<186, -167>>, <<32, -248>>,
          <<-128, -216>>, <<-228, -105>>, <<-249, 27>>, <<-210, 135>>,
          <<-145, 204>>, <<-79, 237>>, <<-30, 248>>, <<-4, 249>>,
          <<-3, 249>>, <<-26, 248>>, <<-72, 239>>, <<-135, 210>>,
          <<-202, 147>>, <<-247, 43>>, <<-235, -87>>, <<-145, -204>>,
          <<9, -250>>, <<169, -185>>, <<249, -22>>, <<193, 157>>,
          <<26, 248>>, <<-158, 194>>, <<-249, 29>>, <<-202, -148>>,
          <<-55, -244>>, <<108, -226>>, <<218, -122>>, <<249, 10>>,
          <<217, 123>>, <<153, 197>>, <<86, 234>>, <<35, 247>>,
          <<5, 249>>, <<1, 249>>, <<20, 249>>, <<63, 241>>, <<125, 216>>,
          <<193, 158>>, <<242, 59>>, <<240, -69>>, <<161, -191>>,
          <<12, -250>>, <<-151, -200>>, <<-246, -46>>, <<-209, 137>>,
          <<-52, 244>>, <<136, 209>>, <<244, 54>>, <<215, -128>>,
          <<77, -238>>, <<-89, -234>>, <<-209, -138>>, <<-250, -7>>,
          <<-225, 110>>, <<-163, 190>>, <<-95, 231>>, <<-41, 246>>,
          <<-9, 249>>, <<-1, 249>>, <<-17, 249>>, <<-57, 243>>,
          <<-117, 221>>, <<-186, 168>>, <<-239, 74>>, <<-245, -52>>,
          <<-177, -178>>, <<-36, -248>>, <<131, -213>> >>
    [] speed = 28 /\ swing_degrees = 180 /\ length = 180 ->
       << <<76, 162>>, <<137, 116>>, <<172, 51>>, <<179, -18>>,
          <<161, -79>>, <<129, -126>>, <<91, -156>>, <<55, -172>>,
          <<26, -178>>, <<8, -180>>, <<0, -180>>, <<3, -180>>,
          <<17, -180>>, <<41, -176>>, <<74, -164>>, <<112, -141>>,
          <<148, -102>>, <<174, -47>>, <<178, 20>>, <<156, 89>>,
          <<105, 145>>, <<34, 176>>, <<-44, 174>>, <<-114, 139>>,
          <<-161, 81>>, <<-180, 12>>, <<-172, -54>>, <<-145, -107>>,
          <<-109, -144>>, <<-71, -166>>, <<-39, -176>>, <<-16, -180>>,
          <<-3, -180>>, <<-1, -180>>, <<-10, -180>>, <<-30, -178>>,
          <<-60, -170>>, <<-96, -153>>, <<-134, -121>>, <<-165, -73>>,
          <<-180, -10>>, <<-170, 59>>, <<-132, 123>>, <<-68, 166>>,
          <<9, 179>>, <<84, 158>>, <<143, 109>>, <<174, 43>>,
          <<178, -26>>, <<158, -86>>, <<124, -130>>, <<86, -158>>,
          <<51, -173>>, <<24, -179>>, <<6, -180>>, <<0, -180>>,
          <<4, -180>>, <<19, -179>>, <<45, -175>>, <<79, -162>>,
          <<117, -137>>, <<152, -96>>, <<175, -39>>, <<177, 29>>,
          <<151, 96>>, <<98, 150>>, <<25, 178>>, <<-53, 172>>,
          <<-121, 133>>, <<-165, 73>>, <<-180, 4>>, <<-170, -61>> >>
    [] speed = 30 /\ swing_degrees = 60 /\ length = 140 ->
       << <<21, 138>>, <<42, 133>>, <<61, 125>>, <<78, 116>>,
          <<91, 105>>, <<102, 95>>, <<110, 86>>, <<115, 78>>,
          <<119, 73>>, <<121, 70>>, <<121, 70>>, <<119, 73>>,
          <<115, 78>>, <<110, 86>>, <<101, 96>>, <<90, 106>>,
          <<77, 116>>, <<60, 126>>, <<41, 133>>, <<20, 138>>,
          <<-2, 139>>, <<-24, 138>>, <<-44, 132>>, <<-63, 125>>,
          <<-79, 115>>, <<-93, 105>>, <<-103, 94>>, <<-111, 85>>,
          <<-117, 78>>, <<-120, 72>>, <<-122, 70>>, <<-121, 70>>,
          <<-120, 73>>, <<-116, 79>>, <<-110, 87>>, <<-102, 96>>,
          <<-91, 107>>, <<-77, 117>>, <<-60, 126>>, <<-41, 134>>,
          <<-20, 138>>, <<2, 139>>, <<24, 137>>, <<44, 132>>,
          <<63, 124>>, <<79, 115>>, <<93, 104>>, <<103, 94>>,
          <<111, 85>>, <<116, 77>>, <<119, 72>>, <<121, 70>>,
          <<120, 70>>, <<118, 73>>, <<115, 79>>, <<109, 87>>,
          <<100, 97>>, <<89, 107>>, <<75, 117>>, <<58, 127>>,
          <<39, 134>>, <<18, 138>>, <<-4, 139>>, <<-26, 137>>,
          <<-46, 132>>, <<-65, 124>>, <<-81, 114>>, <<-94, 104>>,
          <<-104, 93>>, <<-112, 84>>, <<-117, 77>>, <<-120, 72>> >>
    [] speed = 30 /\ swing_degrees = 60 /\ length = 180 ->
       << <<28, 177>>, <<54, 171>>, <<79, 161>>, <<100, 149>>,
          <<117, 136>>, <<131, 122>>, <<141, 110>>, <<149, 100>>,
          <<153, 93>>, <<155, 90>>, <<155, 90>>, <<153, 94>>,
          <<148, 101>>, <<141, 111>>, <<130, 123>>, <<116, 136>>,
          <<99, 150>>, <<77, 162>>, <<53, 171>>, <<26, 178>>,
          <<-2, 179>>, <<-30, 177>>, <<-57, 170>>, <<-81, 161>>,
          <<-102, 148>>, <<-119, 135>>, <<-133, 122>>, <<-143, 110>>,
          <<-150, 100>>, <<-154, 93>>, <<-156, 90>>, <<-156, 90>>,
          <<-154, 94>>, <<-149, 101>>, <<-141, 111>>, <<-131, 124>>,
          <<-117, 137>>, <<-99, 150>>, <<-77, 162>>, <<-52, 172>>,
          <<-25, 178>>, <<3, 179>>, <<31, 177>>, <<57, 170>>,
          <<81, 160>>, <<102, 147>>, <<119, 134>>, <<132, 121>>,
          <<142, 109>>, <<149, 99>>, <<153, 93>>, <<155, 90>>,
          <<155, 90>>, <<152, 94>>, <<148, 102>>, <<140, 112>>,
          <<129, 124>>, <<115, 138>>, <<97, 151>>, <<75, 163>>,
          <<50, 172>>, <<23, 178>>, <<-5, 179>>, <<-33, 177>>,
          <<-60, 170>>, <<-83, 159>>, <<-104, 147>>, <<-121, 133>>,
          <<-134, 120>>, <<-144, 108>>, <<-151, 99>>, <<-155, 93>> >>
    [] speed = 30 /\ swing_degrees = 90 /\ length = 120 ->
       << <<27, 116>>, <<53, 107>>, <<75, 93>>, <<93, 75>>, <<105, 57>>,
          <<113, 40>>, <<117, 24>>, <<119, 12>>, <<119, 4>>, <<119, 0>>,
          <<119, 0>>, <<119, 4>>, <<119, 13>>, <<117, 25>>, <<112, 40>>,
          <<104, 58>>, <<92, 76>>, <<74, 93>>, <<52, 107>>, <<26, 117>>,
          <<-2, 119>>, <<-30, 116>>, <<-56, 106>>, <<-77, 92>>,
          <<-94, 74>>, <<-106, 56>>, <<-114, 39>>, <<-118, 24>>,
          <<-120, 12>>, <<-120, 4>>, <<-120, 0>>, <<-120, 0>>,
          <<-120, 5>>, <<-120, 13>>, <<-118, 26>>, <<-113, 41>>,
          <<-105, 59>>, <<-92, 77>>, <<-74, 94>>, <<-51, 108>>,
          <<-25, 117>>, <<3, 119>>, <<30, 115>>, <<56, 105>>, <<77, 91>>,
          <<94, 73>>, <<106, 55>>, <<113, 38>>, <<117, 23>>, <<119, 11>>,
          <<119, 3>>, <<119, 0>>, <<119, 0>>, <<119, 5>>, <<119, 14>>,
          <<116, 27>>, <<112, 42>>, <<103, 60>>, <<90, 78>>, <<72, 95>>,
          <<49, 109>>, <<23, 117>>, <<-5, 119>>, <<-33, 115>>,
          <<-58, 105>>, <<-80, 90>>, <<-96, 72>>, <<-107, 54>>,
          <<-115, 37>>, <<-118, 22>>, <<-120, 11>>, <<-120, 3>> >>
    [] speed = 30 /\ swing_degrees = 90 /\ length = 150 ->
       << <<34, 145>>, <<67, 134>>, <<94, 116>>, <<116, 94>>,
          <<131, 71>>, <<141, 50>>, <<146, 31>>, <<149, 15>>, <<149, 5>>,
          <<149, 0>>, <<149, 0>>, <<149, 6>>, <<149, 16>>, <<146, 31>>,
          <<140, 51>>, <<130, 73>>, <<115, 96>>, <<93, 117>>,
          <<65, 134>>, <<32, 146>>, <<-2, 149>>, <<-37, 145>>,
          <<-69, 133>>, <<-97, 115>>, <<-118, 93>>, <<-133, 70>>,
          <<-142, 48>>, <<-147, 30>>, <<-150, 15>>, <<-150, 5>>,
          <<-150, 0>>, <<-150, 0>>, <<-150, 6>>, <<-149, 17>>,
          <<-147, 32>>, <<-141, 52>>, <<-131, 74>>, <<-115, 97>>,
          <<-92, 118>>, <<-64, 135>>, <<-32, 146>>, <<3, 149>>,
          <<38, 144>>, <<70, 132>>, <<97, 114>>, <<118, 92>>,
          <<132, 69>>, <<142, 47>>, <<147, 29>>, <<149, 14>>, <<149, 4>>,
          <<149, 0>>, <<149, 1>>, <<149, 7>>, <<148, 18>>, <<146, 33>>,
          <<140, 53>>, <<129, 75>>, <<113, 98>>, <<90, 119>>,
          <<62, 136>>, <<29, 147>>, <<-6, 149>>, <<-41, 144>>,
          <<-73, 131>>, <<-99, 112>>, <<-120, 90>>, <<-134, 68>>,
          <<-143, 46>>, <<-148, 28>>, <<-150, 13>>, <<-150, 4>> >>
    [] speed = 30 /\ swing_degrees = 100 /\ length = 140 ->
       << <<36, 135>>, <<69, 121>>, <<96, 101>>, <<116, 77>>,
          <<129, 52>>, <<137, 28>>, <<139, 7>>, <<139, -8>>,
          <<138, -19>>, <<137, -24>>, <<138, -24>>, <<138, -18>>,
          <<139, -8>>, <<139, 8>>, <<136, 29>>, <<129, 53>>, <<115, 78>>,
          <<95, 102>>, <<67, 122>>, <<34, 135>>, <<-3, 139>>,
          <<-39, 134>>, <<-71, 120>>, <<-98, 100>>, <<-118, 75>>,
          <<-131, 50>>, <<-138, 27>>, <<-140, 6>>, <<-140, -9>>,
          <<-139, -19>>, <<-138, -24>>, <<-139, -24>>, <<-139, -18>>,
          <<-140, -7>>, <<-140, 10>>, <<-137, 30>>, <<-129, 54>>,
          <<-115, 80>>, <<-94, 104>>, <<-66, 123>>, <<-33, 136>>,
          <<4, 139>>, <<40, 134>>, <<72, 119>>, <<99, 98>>, <<118, 74>>,
          <<131, 49>>, <<137, 25>>, <<139, 5>>, <<139, -10>>,
          <<138, -20>>, <<137, -24>>, <<138, -24>>, <<138, -18>>,
          <<139, -6>>, <<139, 11>>, <<136, 32>>, <<128, 56>>,
          <<113, 81>>, <<92, 105>>, <<63, 124>>, <<30, 136>>,
          <<-7, 139>>, <<-42, 133>>, <<-75, 118>>, <<-101, 97>>,
          <<-120, 73>>, <<-132, 47>>, <<-138, 24>>, <<-140, 4>>,
          <<-140, -10>>, <<-139, -20>> >>
    [] speed = 30 /\ swing_degrees = 360 /\ length = 180 ->
       << <<145, 106>>, <<172, -51>>, <<71, -166>>, <<-72, -166>>,
          <<-164, -75>>, <<-177, 37>>, <<-134, 121>>, <<-75, 163>>,
          <<-28, 177>>, <<-3, 179>>, <<-4, 179>>, <<-30, 177>>,
          <<-78, 162>>, <<-137, 117>>, <<-178, 31>>, <<-161, -82>>,
          <<-64, -169>>, <<79, -162>>, <<175, -42>>, <<139, 113>>,
          <<-10, 179>>, <<-151, 98>>, <<-170, -60>>, <<-64, -169>>,
          <<78, -163>>, <<166, -69>>, <<174, 43>>, <<129, 124>>,
          <<71, 165>>, <<25, 178>>, <<2, 179>>, <<4, 179>>, <<31, 177>>,
          <<80, 160>>, <<139, 113>>, <<178, 25>>, <<157, -88>>,
          <<56, -171>>, <<-87, -158>>, <<-177, -34>>, <<-134, 120>>,
          <<18, 178>>, <<155, 90>>, <<166, -68>>, <<55, -172>>,
          <<-86, -159>>, <<-169, -63>>, <<-174, 48>>, <<-127, 127>>,
          <<-69, 166>>, <<-24, 178>>, <<-2, 179>>, <<-6, 179>>,
          <<-34, 176>>, <<-85, 159>>, <<-143, 109>>, <<-179, 19>>,
          <<-154, -94>>, <<-49, -174>>, <<94, -154>>, <<178, -25>>,
          <<126, 127>>, <<-29, 177>>, <<-161, 82>>, <<-164, -77>>,
          <<-48, -174>>, <<91, -155>>, <<171, -56>>, <<171, 54>>,
          <<123, 130>>, <<65, 167>>, <<21, 178>> >>
    [] speed = 30 /\ swing_degrees = 360 /\ length = 200 ->
       << <<161, 118>>, <<191, -57>>, <<79, -184>>, <<-80, -184>>,
          <<-182, -84>>, <<-196, 41>>, <<-148, 134>>, <<-83, 182>>,
          <<-31, 197>>, <<-4, 199>>, <<-4, 199>>, <<-33, 197>>,
          <<-87, 180>>, <<-152, 130>>, <<-197, 35>>, <<-179, -91>>,
          <<-71, -188>>, <<88, -180>>, <<194, -47>>, <<154, 126>>,
          <<-11, 199>>, <<-168, 109>>, <<-189, -67>>, <<-71, -188>>,
          <<86, -181>>, <<184, -77>>, <<194, 47>>, <<144, 138>>,
          <<79, 183>>, <<28, 198>>, <<2, 199>>, <<4, 199>>, <<35, 196>>,
          <<89, 178>>, <<154, 126>>, <<197, 28>>, <<174, -98>>,
          <<62, -190>>, <<-97, -176>>, <<-197, -37>>, <<-149, 134>>,
          <<21, 198>>, <<172, 100>>, <<185, -76>>, <<61, -191>>,
          <<-95, -177>>, <<-188, -70>>, <<-193, 54>>, <<-141, 142>>,
          <<-76, 185>>, <<-26, 198>>, <<-2, 199>>, <<-6, 199>>,
          <<-38, 196>>, <<-94, 176>>, <<-159, 122>>, <<-199, 21>>,
          <<-171, -104>>, <<-55, -193>>, <<104, -171>>, <<198, -27>>,
          <<140, 141>>, <<-32, 197>>, <<-178, 91>>, <<-182, -85>>,
          <<-53, -193>>, <<102, -172>>, <<190, -62>>, <<190, 60>>,
          <<137, 145>>, <<72, 186>>, <<23, 198>> >>
    [] speed = 30 /\ swing_degrees = 360 /\ length = 220 ->
       << <<177, 129>>, <<211, -63>>, <<87, -202>>, <<-87, -203>>,
          <<-201, -92>>, <<-216, 45>>, <<-163, 147>>, <<-92, 200>>,
          <<-34, 217>>, <<-4, 219>>, <<-5, 219>>, <<-36, 217>>,
          <<-95, 198>>, <<-167, 143>>, <<-217, 38>>, <<-197, -100>>,
          <<-79, -206>>, <<96, -198>>, <<213, -52>>, <<170, 139>>,
          <<-12, 219>>, <<-185, 120>>, <<-208, -73>>, <<-78, -206>>,
          <<95, -199>>, <<203, -84>>, <<213, 52>>, <<158, 152>>,
          <<87, 201>>, <<30, 217>>, <<2, 219>>, <<5, 219>>, <<38, 216>>,
          <<98, 196>>, <<170, 139>>, <<217, 31>>, <<192, -107>>,
          <<68, -209>>, <<-107, -193>>, <<-217, -41>>, <<-163, 147>>,
          <<23, 218>>, <<190, 110>>, <<203, -83>>, <<67, -210>>,
          <<-105, -194>>, <<-207, -77>>, <<-212, 59>>, <<-155, 156>>,
          <<-84, 203>>, <<-29, 218>>, <<-3, 219>>, <<-7, 219>>,
          <<-42, 216>>, <<-103, 194>>, <<-175, 134>>, <<-219, 24>>,
          <<-188, -115>>, <<-60, -212>>, <<115, -188>>, <<218, -30>>,
          <<155, 156>>, <<-35, 217>>, <<-196, 100>>, <<-200, -94>>,
          <<-59, -213>>, <<112, -190>>, <<209, -69>>, <<209, 66>>,
          <<150, 160>>, <<79, 204>>, <<26, 218>> >>
    [] speed = 35 /\ swing_degrees = 90 /\ length = 120 ->
       << <<32, 115>>, <<61, 103>>, <<85, 84>>, <<101, 63>>, <<112, 42>>,
          <<117, 24>>, <<119, 11>>, <<119, 2>>, <<119, 0>>, <<119, 3>>,
          <<119, 11>>, <<117, 25>>, <<111, 43>>, <<101, 64>>, <<84, 85>>,
          <<60, 103>>, <<30, 115>>, <<-2, 119>>, <<-34, 115>>,
          <<-63, 102>>, <<-86, 83>>, <<-103, 62>>, <<-113, 41>>,
          <<-118, 24>>, <<-120, 10>>, <<-120, 2>>, <<-120, 0>>,
          <<-120, 3>>, <<-120, 12>>, <<-118, 26>>, <<-112, 44>>,
          <<-101, 65>>, <<-84, 86>>, <<-59, 104>>, <<-30, 116>>,
          <<3, 119>>, <<35, 114>>, <<64, 101>>, <<86, 82>>, <<102, 61>>,
          <<112, 40>>, <<117, 23>>, <<119, 10>>, <<119, 2>>, <<119, 0>>,
          <<119, 3>>, <<119, 12>>, <<116, 27>>, <<110, 45>>, <<99, 66>>,
          <<82, 87>>, <<57, 105>>, <<27, 116>>, <<-5, 119>>,
          <<-37, 114>>, <<-66, 100>>, <<-88, 81>>, <<-104, 60>>,
          <<-114, 40>>, <<-118, 22>>, <<-120, 9>>, <<-120, 1>>,
          <<-120, 0>>, <<-120, 3>>, <<-120, 13>>, <<-117, 27>>,
          <<-111, 46>>, <<-100, 67>>, <<-82, 88>>, <<-57, 105>>,
          <<-27, 117>>, <<6, 119>> >>
    [] speed = 40 /\ swing_degrees = 45 /\ length = 130 ->
       << <<20, 128>>, <<39, 123>>, <<55, 117>>, <<69, 109>>,
          <<79, 102>>, <<86, 96>>, <<90, 92>>, <<91, 91>>, <<90, 93>>,
          <<85, 98>>, <<77, 104>>, <<65, 112>>, <<51, 119>>, <<33, 125>>,
          <<14, 129>>, <<-6, 129>>, <<-26, 127>>, <<-45, 122>>,
          <<-61, 115>>, <<-73, 107>>, <<-83, 100>>, <<-89, 95>>,
          <<-92, 92>>, <<-92, 92>>, <<-89, 94>>, <<-84, 99>>,
          <<-75, 106>>, <<-62, 114>>, <<-47, 121>>, <<-29, 126>>,
          <<-9, 129>>, <<11, 129>>, <<31, 126>>, <<49, 120>>,
          <<64, 113>>, <<75, 105>>, <<84, 98>>, <<89, 94>>, <<91, 92>>,
          <<91, 92>>, <<87, 96>>, <<80, 101>>, <<70, 108>>, <<57, 116>>,
          <<41, 123>>, <<22, 128>>, <<2, 129>>, <<-18, 128>>,
          <<-37, 124>>, <<-54, 118>>, <<-68, 110>>, <<-79, 103>>,
          <<-87, 97>>, <<-91, 93>>, <<-92, 91>>, <<-91, 93>>,
          <<-86, 97>>, <<-79, 103>>, <<-68, 111>>, <<-54, 118>>,
          <<-37, 124>>, <<-17, 128>>, <<3, 129>>, <<23, 127>>,
          <<42, 122>>, <<58, 116>>, <<71, 108>>, <<81, 101>>, <<87, 95>>,
          <<91, 92>>, <<91, 92>>, <<89, 94>> >>
    [] speed = 40 /\ swing_degrees = 60 /\ length = 100 ->
       << <<20, 97>>, <<39, 91>>, <<55, 83>>, <<68, 73>>, <<77, 63>>,
          <<82, 56>>, <<85, 51>>, <<86, 50>>, <<85, 52>>, <<81, 57>>,
          <<74, 66>>, <<64, 76>>, <<51, 85>>, <<34, 93>>, <<14, 98>>,
          <<-7, 99>>, <<-27, 96>>, <<-45, 89>>, <<-60, 80>>, <<-72, 70>>,
          <<-80, 61>>, <<-84, 54>>, <<-87, 50>>, <<-87, 50>>,
          <<-85, 53>>, <<-80, 60>>, <<-73, 69>>, <<-62, 78>>,
          <<-47, 88>>, <<-29, 95>>, <<-9, 99>>, <<12, 99>>, <<32, 94>>,
          <<49, 86>>, <<63, 77>>, <<73, 67>>, <<80, 58>>, <<84, 52>>,
          <<86, 50>>, <<86, 50>>, <<83, 55>>, <<78, 62>>, <<69, 71>>,
          <<57, 81>>, <<41, 90>>, <<23, 97>>, <<2, 99>>, <<-19, 98>>,
          <<-38, 92>>, <<-54, 84>>, <<-67, 74>>, <<-77, 64>>,
          <<-83, 56>>, <<-86, 51>>, <<-87, 50>>, <<-86, 51>>,
          <<-83, 57>>, <<-76, 65>>, <<-67, 74>>, <<-54, 84>>,
          <<-37, 93>>, <<-18, 98>>, <<3, 99>>, <<24, 97>>, <<42, 90>>,
          <<58, 81>>, <<69, 71>>, <<78, 62>>, <<83, 55>>, <<86, 50>>,
          <<86, 50>>, <<84, 53>> >>
    [] speed = 40 /\ swing_degrees = 90 /\ length = 150 ->
       << <<46, 142>>, <<86, 122>>, <<116, 94>>, <<135, 64>>,
          <<145, 36>>, <<149, 15>>, <<149, 3>>, <<149, 0>>, <<149, 6>>,
          <<148, 21>>, <<143, 44>>, <<130, 73>>, <<108, 103>>,
          <<75, 129>>, <<32, 146>>, <<-14, 149>>, <<-59, 138>>,
          <<-97, 115>>, <<-123, 85>>, <<-140, 55>>, <<-147, 30>>,
          <<-150, 11>>, <<-150, 1>>, <<-150, 0>>, <<-150, 9>>,
          <<-148, 27>>, <<-141, 52>>, <<-126, 82>>, <<-101, 111>>,
          <<-64, 135>>, <<-20, 148>>, <<27, 147>>, <<70, 132>>,
          <<105, 107>>, <<128, 76>>, <<142, 47>>, <<148, 23>>,
          <<149, 7>>, <<149, 0>>, <<149, 2>>, <<149, 13>>, <<146, 33>>,
          <<137, 60>>, <<119, 91>>, <<90, 119>>, <<51, 140>>, <<5, 149>>,
          <<-41, 144>>, <<-82, 125>>, <<-114, 98>>, <<-134, 68>>,
          <<-145, 40>>, <<-149, 18>>, <<-150, 4>>, <<-150, 0>>,
          <<-150, 4>>, <<-149, 18>>, <<-145, 41>>, <<-133, 69>>,
          <<-112, 99>>, <<-81, 126>>, <<-39, 144>>, <<7, 149>>,
          <<53, 140>>, <<91, 118>>, <<120, 89>>, <<137, 59>>,
          <<146, 32>>, <<149, 13>>, <<149, 2>>, <<149, 0>>, <<149, 8>> >>
    [] speed = 40 /\ swing_degrees = 360 /\ length = 200 ->
       << <<189, 63>>, <<128, -154>>, <<-80, -184>>, <<-196, -41>>,
          <<-168, 108>>, <<-83, 182>>, <<-19, 199>>, <<-1, 199>>,
          <<-33, 197>>, <<-108, 168>>, <<-187, 71>>, <<-179, -91>>,
          <<-20, -200>>, <<172, -102>>, <<154, 126>>, <<-72, 186>>,
          <<-200, -7>>, <<-71, -188>>, <<129, -153>>, <<199, 8>>,
          <<144, 138>>, <<59, 190>>, <<7, 199>>, <<4, 199>>, <<51, 193>>,
          <<133, 148>>, <<197, 28>>, <<146, -136>>, <<-45, -196>>,
          <<-197, -37>>, <<-100, 173>>, <<133, 148>>, <<185, -76>>,
          <<7, -200>>, <<-167, -111>>, <<-193, 54>>, <<-119, 160>>,
          <<-41, 195>>, <<-2, 199>>, <<-14, 199>>, <<-73, 186>>,
          <<-159, 122>>, <<-200, -20>>, <<-102, -173>>, <<104, -171>>,
          <<197, 33>>, <<31, 197>>, <<-178, 91>>, <<-149, -134>>,
          <<54, -193>>, <<190, -62>>, <<176, 93>>, <<93, 176>>,
          <<23, 198>>, <<0, 199>>, <<26, 198>>, <<97, 174>>, <<179, 88>>,
          <<187, -70>>, <<45, -195>>, <<-156, -126>>, <<-173, 101>>,
          <<41, 195>>, <<198, 23>>, <<96, -176>>, <<-110, -168>>,
          <<-200, -13>>, <<-155, 126>>, <<-70, 187>>, <<-12, 199>>,
          <<-3, 199>>, <<-43, 195>> >>
    [] speed = 50 /\ swing_degrees = 90 /\ length = 140 ->
       << <<53, 129>>, <<95, 102>>, <<122, 67>>, <<135, 34>>,
          <<139, 11>>, <<139, 0>>, <<139, 3>>, <<138, 19>>, <<131, 47>>,
          <<113, 82>>, <<78, 115>>, <<30, 136>>, <<-24, 137>>,
          <<-74, 119>>, <<-110, 87>>, <<-130, 52>>, <<-139, 22>>,
          <<-140, 4>>, <<-140, 0>>, <<-140, 9>>, <<-137, 30>>,
          <<-126, 62>>, <<-101, 97>>, <<-60, 126>>, <<-8, 139>>,
          <<46, 132>>, <<90, 106>>, <<120, 71>>, <<134, 38>>,
          <<139, 13>>, <<139, 1>>, <<139, 2>>, <<138, 16>>, <<133, 43>>,
          <<116, 77>>, <<84, 111>>, <<37, 134>>, <<-17, 139>>,
          <<-68, 122>>, <<-106, 91>>, <<-129, 56>>, <<-138, 26>>,
          <<-140, 6>>, <<-140, 0>>, <<-140, 7>>, <<-138, 27>>,
          <<-128, 57>>, <<-105, 93>>, <<-66, 123>>, <<-15, 139>>,
          <<39, 134>>, <<85, 110>>, <<117, 76>>, <<133, 42>>,
          <<139, 16>>, <<139, 2>>, <<139, 1>>, <<139, 14>>, <<134, 39>>,
          <<119, 73>>, <<89, 107>>, <<44, 132>>, <<-10, 139>>,
          <<-62, 125>>, <<-102, 96>>, <<-126, 61>>, <<-137, 29>>,
          <<-140, 8>>, <<-140, 0>>, <<-140, 5>>, <<-138, 23>>,
          <<-130, 53>> >>
    [] speed = 50 /\ swing_degrees = 360 /\ length = 250 ->
       << <<249, 4>>, <<32, -248>>, <<-228, -105>>, <<-210, 135>>,
          <<-79, 237>>, <<-4, 249>>, <<-26, 248>>, <<-135, 210>>,
          <<-247, 43>>, <<-145, -204>>, <<169, -185>>, <<193, 157>>,
          <<-158, 194>>, <<-202, -148>>, <<108, -226>>, <<249, 10>>,
          <<153, 197>>, <<35, 247>>, <<1, 249>>, <<63, 241>>,
          <<193, 158>>, <<240, -69>>, <<12, -250>>, <<-246, -46>>,
          <<-52, 244>>, <<244, 54>>, <<77, -238>>, <<-209, -138>>,
          <<-225, 110>>, <<-95, 231>>, <<-9, 249>>, <<-17, 249>>,
          <<-117, 221>>, <<-239, 74>>, <<-177, -178>>, <<131, -213>>,
          <<221, 115>>, <<-114, 222>>, <<-227, -106>>, <<68, -241>>,
          <<248, -24>>, <<171, 181>>, <<46, 245>>, <<0, 249>>,
          <<50, 244>>, <<176, 177>>, <<247, -34>>, <<56, -244>>,
          <<-232, -94>>, <<-102, 228>>, <<227, 102>>, <<120, -220>>,
          <<-184, -170>>, <<-236, 82>>, <<-113, 223>>, <<-15, 249>>,
          <<-10, 249>>, <<-100, 229>>, <<-228, 103>>, <<-203, -147>>,
          <<88, -234>>, <<240, 67>>, <<-66, 241>>, <<-243, -59>>,
          <<24, -249>>, <<242, -60>>, <<189, 163>>, <<60, 242>>,
          <<0, 249>>, <<38, 247>>, <<158, 193>>, <<249, 1>> >>

\* floor(math.sin(timer * speed) * amplitude) after timer milliseconds
OscillatingHazard_offset(osc, timer) ==
  OscillatingHazard_offsets(osc.speed, osc.amplitude)[timer \div 50]

\* OscillatingHazard.update
OscillatingHazard_update(osc, dt) ==
  LET t == osc.timer + dt
      o == OscillatingHazard_offset(osc, t)
  IN  IF osc.axis = "x"
        THEN [osc EXCEPT !.timer = t, !.rect.x = int_sum(osc.base_rect.x, o)]
        ELSE [osc EXCEPT !.timer = t, !.rect.y = int_sum(osc.base_rect.y, o)]

OscillatingHazard_collides(osc, rect) == colliderect(osc.rect, generous(rect))

\* (mutant) a hidden spike hits too
TriggerSpike_collides_hidden(spike, rect) ==
  colliderect(spike.rect, generous(rect))

\* TriggerSpike.collides
TriggerSpike_collides(spike, rect) ==
  spike.active /\ colliderect(spike.rect, generous(rect))

\* SwingingAxe.update: the blade is centred on the end of the pendulum
SwingingAxe_update(axe, dt) ==
  LET t == axe.time + dt
      d == SwingingAxe_offsets(axe.speed, axe.swing_degrees, axe.length)[t \div 50]
      cx == int_sum(axe.pivot[1], d[1])
      cy == int_sum(axe.pivot[2], d[2])
  IN  [axe EXCEPT !.time = t,
                  !.rect.x = cx - (axe.rect.w \div 2),
                  !.rect.y = cy - (axe.rect.h \div 2)]

SwingingAxe_collides(axe, rect) == colliderect(axe.rect, generous(rect))

\* (mutant) the step toward the player is not limited to the remaining
\* distance
ChasingHazard_update_overshoots(ch, dt, player_rect) ==
  IF ~ch.is_active THEN ch
  ELSE IF ch.timer - dt <= 0
    THEN [ch EXCEPT !.timer = ch.timer - dt, !.is_active = FALSE]
  ELSE
    LET t == ch.timer - dt
        direction == centerx(player_rect) * 10 - ch.pos[1]
        step == (ch.speed * dt) \div 100
        x == IF direction > 0 THEN ch.pos[1] + step
             ELSE IF direction < 0 THEN ch.pos[1] - step
             ELSE ch.pos[1]
    IN  IF ~RectTruthy(player_rect) THEN [ch EXCEPT !.timer = t]
        ELSE [ch EXCEPT !.timer = t, !.pos = <<x, ch.pos[2]>>,
                        !.rect.x = int10(x - (ch.rect.w * 10) \div 2),
                        !.rect.y = int10(ch.pos[2])]

\* ChasingHazard.update: pos is kept in tenths of a pixel, speed in pixels
\* per second, so that speed * dt is (speed * dt) / 100 tenths
ChasingHazard_update(ch, dt, player_rect) ==
  IF ~ch.is_active THEN ch
  ELSE IF ch.timer - dt <= 0
    THEN [ch EXCEPT !.timer = ch.timer - dt, !.is_active = FALSE]
  ELSE
    LET t == ch.timer - dt
        direction == centerx(player_rect) * 10 - ch.pos[1]
        step == (ch.speed * dt) \div 100
        x == IF direction > 0 THEN ch.pos[1] + Min(direction, step)
             ELSE IF direction < 0 THEN ch.pos[1] + Max(direction, -step)
             ELSE ch.pos[1]
    IN  IF ~RectTruthy(player_rect) THEN [ch EXCEPT !.timer = t]
        ELSE [ch EXCEPT !.timer = t, !.pos = <<x, ch.pos[2]>>,
                        !.rect.x = int10(x - (ch.rect.w * 10) \div 2),
                        !.rect.y = int10(ch.pos[2])]

\* (mutant) the hit test forgets is_active
ChasingHazard_collides_while_expired(ch, rect) ==
  colliderect(ch.rect, generous(rect))

ChasingHazard_collides(ch, rect) ==
  ch.is_active /\ colliderect(ch.rect, generous(rect))

\* (mutant) the platform goes only when the player stands wholly inside the
\* trigger zone
DisappearingPlatform_update_when_inside(dp, player_rect) ==
  IF ~dp.is_removed /\ RectTruthy(player_rect)
       /\ left(dp.trigger_rect) <= left(player_rect)
       /\ right(player_rect) <= right(dp.trigger_rect)
       /\ top(dp.trigger_rect) <= top(player_rect)
       /\ bottom(player_rect) <= bottom(dp.trigger_rect)
    THEN [dp EXCEPT !.is_removed = TRUE]
    ELSE dp

\* DisappearingPlatform.update
DisappearingPlatform_update(dp, player_rect) ==
  IF ~dp.is_removed /\ RectTruthy(player_rect)
       /\ colliderect(player_rect, dp.trigger_rect)
    THEN [dp EXCEPT !.is_removed = TRUE]
    ELSE dp

\* (mutant) a slamming crusher does not stop at its target depth
CrushingHazard_update_overshoots(crush, dt, player_rect) ==
  IF crush.state = "IDLE"
    THEN IF RectTruthy(player_rect)
            /\ centerx(player_rect) - centerx(crush.rect) < 100
            /\ centerx(crush.rect) - centerx(player_rect) < 100
           THEN [crush EXCEPT !.state = "SLAMMING"]
           ELSE crush
  ELSE IF crush.state = "SLAMMING"
    THEN LET y == crush.rect.y + (crush.speed * dt) \div 1000
         IN  IF y >= crush.target_y
               THEN [crush EXCEPT !.rect.y = y, !.state = "RETURNING"]
               ELSE [crush EXCEPT !.rect.y = y]
  ELSE IF crush.state = "RETURNING"
    THEN LET y == crush.rect.y - (crush.return_speed * dt) \div 1000
         IN  IF y <= crush.base_rect.y
               THEN [crush EXCEPT !.rect.y = crush.base_rect.y, !.state = "IDLE"]
               ELSE [crush EXCEPT !.rect.y = y]
  ELSE crush

\* (mutant) a returning crusher does not move
CrushingHazard_update_stalls(crush, dt, player_rect) ==
  IF crush.state = "IDLE"
    THEN IF RectTruthy(player_rect)
            /\ centerx(player_rect) - centerx(crush.rect) < 100
            /\ centerx(crush.rect) - centerx(player_rect) < 100
           THEN [crush EXCEPT !.state = "SLAMMING"]
           ELSE crush
  ELSE IF crush.state = "SLAMMING"
    THEN LET y == crush.rect.y + (crush.speed * dt) \div 1000
         IN  IF y >= crush.target_y
               THEN [crush EXCEPT !.rect.y = crush.target_y, !.state = "RETURNING"]
               ELSE [crush EXCEPT !.rect.y = y]
  ELSE IF crush.state = "RETURNING"
    THEN LET y == crush.rect.y
         IN  IF y <= crush.base_rect.y
               THEN [crush EXCEPT !.rect.y = crush.base_rect.y, !.state = "IDLE"]
               ELSE [crush EXCEPT !.rect.y = y]
  ELSE crush

\* CrushingHazard.update
CrushingHazard_update(crush, dt, player_rect) ==
  IF crush.state = "IDLE"
    THEN IF RectTruthy(player_rect)
            /\ centerx(player_rect) - centerx(crush.rect) < 100
            /\ centerx(crush.rect) - centerx(player_rect) < 100
           THEN [crush EXCEPT !.state = "SLAMMING"]
           ELSE crush
  ELSE IF crush.state = "SLAMMING"
    THEN LET y == crush.rect.y + (crush.speed * dt) \div 1000
         IN  IF y >= crush.target_y
               THEN [crush EXCEPT !.rect.y = crush.target_y, !.state = "RETURNING"]
               ELSE [crush EXCEPT !.rect.y = y]
  ELSE IF crush.state = "RETURNING"
    THEN LET y == crush.rect.y - (crush.return_speed * dt) \div 1000
         IN  IF y <= crush.base_rect.y
               THEN [crush EXCEPT !.rect.y = crush.base_rect.y, !.state = "IDLE"]
               ELSE [crush EXCEPT !.rect.y = y]
  ELSE crush

\* CrushingHazard.collides: the whole rectangle, no generous hit box
CrushingHazard_collides(crush, rect) == colliderect(crush.rect, rect)

(***************************************************************************)
(* LevelManager.update_hazards and check_hazard_collision                  *)
(***************************************************************************)
\* list.remove(x): the first element equal to x goes
RECURSIVE list_remove(_, _)
list_remove(seq, x) ==
  IF seq = << >> THEN << >>
  ELSE IF Head(seq) = x THEN Tail(seq)
  ELSE << Head(seq) >> \o list_remove(Tail(seq), x)

RECURSIVE remove_triggered_drops_first(_, _, _)
\* (mutant) a fired trigger takes the first platform of the list
remove_triggered_drops_first(plats, dps, k) ==
  IF k > Len(dps) THEN plats
  ELSE IF dps[k].is_removed /\ InSeq(dps[k].target_platform_rect, plats)
    THEN remove_triggered_drops_first(Tail(plats), dps, k + 1)
  ELSE remove_triggered_drops_first(plats, dps, k + 1)

RECURSIVE remove_triggered(_, _, _)
\* the platform list after the loop of update_hazards over the disappearing
\* platforms dps, already updated; k is the loop position
remove_triggered(plats, dps, k) ==
  IF k > Len(dps) THEN plats
  ELSE IF dps[k].is_removed /\ InSeq(dps[k].target_platform_rect, plats)
    THEN remove_triggered(list_remove(plats, dps[k].target_platform_rect), dps, k + 1)
  ELSE remove_triggered(plats, dps, k + 1)

\* (mutant) the crushers are left out
hazard_collision_without_crushers(traps, oscs, spikes, axes, chs, crushers, rect) ==
  \/ \E k \in 1..Len(traps) : colliderect(traps[k], rect)
  \/ \E k \in 1..Len(oscs) : OscillatingHazard_collides(oscs[k], rect)
  \/ \E k \in 1..Len(spikes) : TriggerSpike_collides(spikes[k], rect)
  \/ \E k \in 1..Len(axes) : SwingingAxe_collides(axes[k], rect)
  \/ \E k \in 1..Len(chs) : ChasingHazard_collides(chs[k], rect)

\* the test of check_hazard_collision(rect) on given hazard lists
hazard_collision(traps, oscs, spikes, axes, chs, crushers, rect) ==
  \/ \E k \in 1..Len(traps) : colliderect(traps[k], rect)
  \/ \E k \in 1..Len(oscs) : OscillatingHazard_collides(oscs[k], rect)
  \/ \E k \in 1..Len(spikes) : TriggerSpike_collides(spikes[k], rect)
  \/ \E k \in 1..Len(axes) : SwingingAxe_collides(axes[k], rect)
  \/ \E k \in 1..Len(chs) : ChasingHazard_collides(chs[k], rect)
  \/ \E k \in 1..Len(crushers) : CrushingHazard_collides(crushers[k], rect)

\* check_hazard_collision(rect) on the loaded level
check_hazard_collision(rect) ==
  hazard_collision(static_traps, oscillators, trigger_spikes, swing_axes,
                   chasers, crushing_hazards, rect)

(***************************************************************************)
(* DatabaseManager (database_manager.py), for one player.  A query that    *)
(* the driver refuses ends _execute with RuntimeError, after a rollback;   *)
(* when the connection is lost the rollback() in that handler raises the   *)
(* driver's own error instead.  fail_at names the _execute call of an      *)
(* operation that fails, counted from 1, and 0 when none does.             *)
(***************************************************************************)
DbFailures == {"RuntimeError", "pyodbc.Error"}

SetMax(S) == CHOOSE m \in S : \A n \in S : n <= m

\* SELECT ISNULL(MAX(stars_earned), 0) ... WHERE level_id = ?
get_max_stars_for_level(database, lvl) ==
  SetMax({0} \cup { database.attempts[k].stars_earned :
                      k \in { j \in 1..Len(database.attempts) :
                                database.attempts[j].level_id = lvl } })

\* the dictionary get_player_level_stars returns, as a function on the level
\* ids: MAX(stars_earned) of the level's rows, 0 for a level without rows
get_player_level_stars(database) ==
  [ lvl \in 1..NumLevels |-> get_max_stars_for_level(database, lvl) ]

RECURSIVE sum_upto(_, _)
sum_upto(f, n) == IF n = 0 THEN 0 ELSE f[n] + sum_upto(f, n - 1)

\* sum(map_progress.values())
sum_values(progress) == sum_upto(progress, NumLevels)

\* DatabaseManager.log_death: one INSERT
db_log_death(database, lvl, coord_x, coord_y, fail_at, failure) ==
  IF fail_at = 1 THEN [db |-> database, error |-> failure]
  ELSE [ db |-> [database EXCEPT !.deaths =
                   [count |-> @.count + 1,
                    last |-> [level_id |-> lvl, coord_x |-> coord_x, coord_y |-> coord_y]]],
         error |-> "none" ]

\* DatabaseManager.record_level_attempt: the SELECT of the old best, the
\* INSERT of the attempt with its own commit, and, on a net gain, the UPDATE
\* of Players.total_stars with its own commit
record_level_attempt(database, lvl, attempts, stars_earned, fail_at, failure) ==
  LET max_stars_old == get_max_stars_for_level(database, lvl)
      star_delta == Max(0, stars_earned - max_stars_old)
      inserted == [database EXCEPT !.attempts =
                     Append(@, [level_id |-> lvl, attempts |-> attempts,
                                stars_earned |-> stars_earned])]
  IN  IF fail_at = 1 \/ fail_at = 2 THEN [db |-> database, error |-> failure]
      ELSE IF star_delta > 0
        THEN IF fail_at = 3 THEN [db |-> inserted, error |-> failure]
             ELSE [db |-> [inserted EXCEPT !.total_stars = @ + star_delta],
                   error |-> "none"]
      ELSE [db |-> inserted, error |-> "none"]

(***************************************************************************)
(* Initial state: the state after Game.__init__.  The module-level         *)
(* LevelManager() starts on DEFAULT_LEVEL_ID, Game.__init__ calls          *)
(* load_level() and builds the Player at the level's spawn point.          *)
(***************************************************************************)
\* Game.current_user before a login: None
NoUser == [present |-> FALSE, id |-> 0, total_stars |-> 0]

InitialIndex == Max(0, DEFAULT_LEVEL_ID - 1) % NumLevels
InitialLevel == LevelFromBlueprint(LEVEL_BLUEPRINTS[InitialIndex + 1])

\* the database of a player who has just registered
NewDb ==
  [ attempts |-> << >>,
    deaths |-> [count |-> 0, last |-> [level_id |-> 0, coord_x |-> 0, coord_y |-> 0]],
    total_stars |-> 0 ]

\* the state after Game.__init__, with the call recorded as made last
InitCalled(database, first_op, first_arg) ==
  /\ current_level_index = InitialIndex
  /\ level_id = InitialLevel.level_id
  /\ current_attempts = 0
  /\ level_length = InitialLevel.level_length
  /\ spawn_point = InitialLevel.spawn_point
  /\ goal_rect = InitialLevel.goal_rect
  /\ platforms = InitialLevel.platforms
  /\ static_traps = InitialLevel.static_traps
  /\ oscillators = InitialLevel.oscillators
  /\ trigger_spikes = InitialLevel.trigger_spikes
  /\ swing_axes = InitialLevel.swing_axes
  /\ chasers = InitialLevel.chasers
  /\ disappearing_platforms = InitialLevel.disappearing_platforms
  /\ crushing_hazards = InitialLevel.crushing_hazards
  /\ clock = 0
  /\ player = NewPlayer(InitialLevel.spawn_point)
  /\ state = "LOGIN"
  /\ current_user = NoUser
  /\ map_progress = [l \in 1..NumLevels |-> 0]
  /\ camera_x = 0
  /\ message_text = ""
  /\ dialogue = [active |-> FALSE, locked |-> FALSE]
  /\ last_victory = [level |-> 0, stars |-> 0]
  /\ db = database
  /\ op = first_op /\ arg = first_arg /\ result = None /\ error = "none"
  /\ was_on_ground = FALSE /\ landed = FALSE /\ overlapped = FALSE
  /\ since_ground = COYOTE_TIME /\ since_left = COYOTE_TIME
  /\ full_jumps = 0 /\ air_jumps = 0 /\ fall_frames = 0
  /\ since_request = JUMP_BUFFER_TIME

InitWith(database) == InitCalled(database, "init", None)

Init == InitWith(NewDb)

(***************************************************************************)
(* LevelManager operations                                                 *)
(***************************************************************************)
\* the indices load_level is called with: every one up to the bound, on both
\* sides of the valid range, and the one of test_exceptions.py
LoadIndices == (-MaxIndex .. MaxIndex) \cup {999}

\* load_level(index=index)
load_level(index) ==
  /\ LoadLevelEffect(resolve_index(index))
  /\ op' = "load_level" /\ arg' = index /\ result' = None
  /\ UNCHANGED << current_attempts, player, gameVars, historyVars >>

\* load_level() without an index: the current level is built again
reload_level ==
  /\ LoadLevelEffect(current_level_index)
  /\ op' = "reload_level" /\ arg' = None /\ result' = None
  /\ UNCHANGED << current_attempts, player, gameVars, historyVars >>

advance_level ==
  /\ current_level_index' = (current_level_index + 1) % NumLevels
  /\ InstallLevel(LevelFromBlueprint(
       LEVEL_BLUEPRINTS[((current_level_index + 1) % NumLevels) + 1]))
  /\ op' = "advance_level" /\ arg' = None /\ result' = None /\ error' = "none"
  /\ UNCHANGED << current_attempts, player, gameVars, historyVars >>

reset_attempts ==
  /\ current_attempts' = 0
  /\ op' = "reset_attempts" /\ arg' = None /\ result' = None /\ error' = "none"
  /\ LevelDataUnchanged
  /\ UNCHANGED << current_level_index, player, gameVars, historyVars >>

increment_attempts ==
  /\ current_attempts < MaxAttempts
  /\ current_attempts' = current_attempts + 1
  /\ op' = "increment_attempts" /\ arg' = None
  /\ result' = current_attempts + 1 /\ error' = "none"
  /\ LevelDataUnchanged
  /\ UNCHANGED << current_level_index, player, gameVars, historyVars >>

CalculateStarRating ==
  /\ result' = calculate_star_rating(current_attempts)
  /\ op' = "calculate_star_rating" /\ arg' = None /\ error' = "none"
  /\ UNCHANGED << levelVars, player, gameVars, historyVars >>

NextLevel ==
  \/ \E index \in LoadIndices : load_level(index)
  \/ reload_level
  \/ advance_level
  \/ reset_attempts
  \/ increment_attempts
  \/ CalculateStarRating

SpecLevel == Init /\ [][NextLevel]_vars

(***************************************************************************)
(* Player operations, on the platforms of the loaded level                 *)
(***************************************************************************)
\* Game._update_play stops calling Player.update once the player's top edge
\* is below SCREEN_HEIGHT + 200 (the death test); the model also stops
\* following the player to the right of MaxX.
InPlay ==
  /\ top(player.rect) <= SCREEN_HEIGHT + 200
  /\ left(player.rect) <= MaxX

\* saturation of the jump counters of the history
JumpCountCap == 3

\* frames of free fall after which a player that left with JUMP_FORCE falls
\* at MAX_FALL_SPEED: ceil((MAX_FALL_SPEED - JUMP_FORCE) / GRAVITY)
FramesToTerminal == (MAX_FALL_SPEED - JUMP_FORCE + GRAVITY - 1) \div GRAVITY

\* which impulse the last _consume_buffered_jump applied
Impulse(u) ==
  IF ~u.ret THEN "none"
  ELSE IF u.p.vel.y = JUMP_FORCE THEN "full"
  ELSE "air"

\* the vertical pass of an update touched a platform: the rectangle moved by
\* int(vel.y) overlaps one
YContact(p, dt, plats, length) ==
  LET q == move_x(decay_timers(p, dt), plats, length)
      r == [q.rect EXCEPT !.y = q.rect.y + int10(q.vel.y)]
  IN  \E k \in 1..Len(plats) : colliderect(r, plats[k])

\* Player.jump, called by Game._handle_play_event on a jump key
Jump ==
  /\ InPlay
  /\ player' = jump(player)
  /\ op' = "jump" /\ arg' = None /\ result' = None /\ error' = "none"
  /\ since_request' = 0
  /\ UNCHANGED << levelVars, gameVars, was_on_ground, landed, overlapped,
                  since_ground, since_left, full_jumps, air_jumps, fall_frames >>

\* Player.handle_input(keys) followed by Player.update(dt, platforms,
\* level_length), as Game._update_play calls them each frame; dt is the
\* frame's Game.delta.  (The values are bound once by the quantifiers.)
PlayerUpdate(keyLeft, keyRight, dt) ==
  /\ InPlay
  /\ \E p0 \in {handle_input(player, keyLeft, keyRight)} :
     \E u \in {update(p0, dt, platforms, level_length)} :
     \E contact \in {YContact(p0, dt, platforms, level_length)} :
     \E imp \in {Impulse(u)} :
     \E full0 \in {IF u.landed THEN 0 ELSE full_jumps} :
     \E air0 \in {IF u.landed THEN 0 ELSE air_jumps} :
      /\ player' = u.p
      /\ op' = "update" /\ arg' = None
      /\ result' = u.ret /\ error' = "none"
      /\ was_on_ground' = u.was_on_ground
      /\ landed' = u.landed
      /\ overlapped' = (\E k \in 1..Len(platforms) : colliderect(player.rect, platforms[k]))
      /\ since_ground' = IF u.landed THEN 0 ELSE Min(since_ground + dt, COYOTE_TIME)
      /\ since_left' = IF u.landed \/ u.was_on_ground THEN 0
                       ELSE Min(since_left + dt, COYOTE_TIME)
      /\ full_jumps' = IF imp = "full" THEN Min(full0 + 1, JumpCountCap) ELSE full0
      /\ air_jumps' = IF imp = "air" THEN Min(air0 + 1, JumpCountCap) ELSE air0
      /\ fall_frames' = IF contact \/ u.ret THEN 0
                        ELSE Min(fall_frames + 1, FramesToTerminal + 1)
      /\ since_request' = IF u.ret THEN JUMP_BUFFER_TIME
                          ELSE Min(since_request + dt, JUMP_BUFFER_TIME)
      /\ UNCHANGED << levelVars, gameVars >>

\* Player.reset, called when play resumes after a death
Reset ==
  /\ player' = reset(player)
  /\ op' = "reset" /\ arg' = None /\ result' = None /\ error' = "none"
  /\ was_on_ground' = FALSE /\ landed' = FALSE /\ overlapped' = FALSE
  /\ since_ground' = COYOTE_TIME /\ since_left' = COYOTE_TIME
  /\ full_jumps' = 0 /\ air_jumps' = 0 /\ fall_frames' = 0
  /\ since_request' = JUMP_BUFFER_TIME
  /\ UNCHANGED << levelVars, gameVars >>

NextPlayer ==
  \/ Jump
  \/ \E keyLeft \in BOOLEAN, keyRight \in BOOLEAN, dt \in SteadyFrameTimes :
       left(player.rect) <= MaxFreeX /\ PlayerUpdate(keyLeft, keyRight, dt)
  \/ Reset

SpecPlayer == Init /\ [][NextPlayer]_vars

\* A run to the right: the right key is held in every frame, jumps are
\* requested at any time.  The run leaves the first platform, reaches the
\* pit and the underside of the second platform.
NextRun ==
  \/ Jump
  \/ \E dt \in FrameTimes : PlayerUpdate(FALSE, TRUE, dt)
  \/ Reset

SpecRun == Init /\ [][NextRun]_vars

(***************************************************************************)
(* Trigger spikes of the loaded level, updated with any player rectangle   *)
(***************************************************************************)
\* player rectangles around the trigger zones of the first level: outside,
\* touching an edge, and inside
SpikePlayerRects ==
  { Rect(x, y, PLAYER_WIDTH, PLAYER_HEIGHT) :
      x \in {80, 920, 940, 1000, 1040, 2680, 2760},
      y \in {280, 300, 420, 560} }

\* TriggerSpike.update(dt, player_rect) on the spike at position i
TriggerSpikeUpdate(i, dt, player_rect) ==
  /\ trigger_spikes' =
       [trigger_spikes EXCEPT ![i] = TriggerSpike_update(trigger_spikes[i], dt, player_rect)]
  /\ op' = "TriggerSpike.update"
  /\ arg' = [i |-> i, player_rect |-> player_rect]
  /\ result' = None /\ error' = "none"
  /\ UNCHANGED << current_level_index, level_id, current_attempts, level_length,
                  spawn_point, goal_rect, platforms, static_traps, oscillators,
                  swing_axes, chasers, disappearing_platforms, crushing_hazards,
                  clock, player, gameVars, historyVars >>

NextSpike ==
  \/ \E i \in 1..Len(trigger_spikes), dt \in FrameTimes, r \in SpikePlayerRects :
       TriggerSpikeUpdate(i, dt, r)
  \/ reload_level

SpecSpike == Init /\ [][NextSpike]_vars

(***************************************************************************)
(* The hazards of a level, updated frame after frame with any player       *)
(* rectangle, as test_hazards.py and test_level_logic.py drive them        *)
(***************************************************************************)
\* the hazards are followed for this many milliseconds after a load
MaxClock == 3200

\* the state change of LevelManager.update_hazards(dt, player_rect): every
\* hazard list in the order of the code, then the disappearing platforms
\* and the removal of their platforms
HazardsUpdate(dt, player_rect) ==
  /\ oscillators' = [k \in 1..Len(oscillators) |->
                       OscillatingHazard_update(oscillators[k], dt)]
  /\ trigger_spikes' = [k \in 1..Len(trigger_spikes) |->
                          TriggerSpike_update(trigger_spikes[k], dt, player_rect)]
  /\ swing_axes' = [k \in 1..Len(swing_axes) |->
                      SwingingAxe_update(swing_axes[k], dt)]
  /\ chasers' = [k \in 1..Len(chasers) |->
                   ChasingHazard_update(chasers[k], dt, player_rect)]
  /\ crushing_hazards' = [k \in 1..Len(crushing_hazards) |->
                            CrushingHazard_update(crushing_hazards[k], dt, player_rect)]
  /\ \E dps \in {[k \in 1..Len(disappearing_platforms) |->
                    DisappearingPlatform_update(disappearing_platforms[k], player_rect)]} :
       /\ disappearing_platforms' = dps
       /\ platforms' = remove_triggered(platforms, dps, 1)
  /\ clock' = clock + dt

\* update_hazards called on LevelManager directly
update_hazards(dt, player_rect) ==
  /\ clock < MaxClock
  /\ HazardsUpdate(dt, player_rect)
  /\ op' = "update_hazards"
  /\ arg' = [dt |-> dt, player_rect |-> player_rect]
  /\ result' = None /\ error' = "none"
  /\ UNCHANGED << current_level_index, level_id, current_attempts, level_length,
                  spawn_point, goal_rect, static_traps,
                  player, gameVars, historyVars >>

\* player rectangles on the first level: at the spawn point, under the
\* second crusher, and across the left edge of and inside the trigger zone
\* of the disappearing platform
HazardPlayerRects ==
  { Rect(80, 580, PLAYER_WIDTH, PLAYER_HEIGHT),
    Rect(420, 560, PLAYER_WIDTH, PLAYER_HEIGHT),
    Rect(1380, 470, PLAYER_WIDTH, PLAYER_HEIGHT),
    Rect(1420, 470, PLAYER_WIDTH, PLAYER_HEIGHT) }

NextHazards ==
  \/ \E dt \in FrameTimes, r \in HazardPlayerRects : update_hazards(dt, r)
  \/ reload_level

SpecHazards == Init /\ [][NextHazards]_vars

(***************************************************************************)
(* Loads of any level over hazards that have been in play for a few frames *)
(***************************************************************************)
\* the hazards are updated for this many milliseconds before a load
MaxLoadClock == 150

NextLoad ==
  \/ \E dt \in FrameTimes, r \in HazardPlayerRects :
       clock < MaxLoadClock /\ update_hazards(dt, r)
  \/ \E index \in LoadIndices : load_level(index)

SpecLoad == Init /\ [][NextLoad]_vars

(***************************************************************************)
(* The database under any sequence of record_level_attempt calls           *)
(***************************************************************************)
\* the table Level_Attempts is followed up to this many rows
MaxRows == 4

\* the attempt counts the calls are made with; the stars are the rating of
\* the count, as handle_victory passes them
RecordedAttempts == {1, 4, 6}

RecordLevelAttempt(lvl, attempts, fail_at, failure) ==
  /\ Len(db.attempts) < MaxRows
  /\ \E rec \in {record_level_attempt(db, lvl, attempts,
                    calculate_star_rating(attempts), fail_at, failure)} :
       /\ db' = rec.db
       /\ error' = rec.error
  /\ op' = "record_level_attempt"
  /\ arg' = [level_id |-> lvl, attempts |-> attempts, fail_at |-> fail_at]
  /\ result' = None
  /\ UNCHANGED << levelVars, player, state, current_user, map_progress, camera_x,
                  message_text, dialogue, last_victory, historyVars >>

NextDb ==
  \E lvl \in 1..2, attempts \in RecordedAttempts, fail_at \in 0..3, failure \in DbFailures :
    RecordLevelAttempt(lvl, attempts, fail_at, failure)

SpecDb == Init /\ [][NextDb]_vars

(***************************************************************************)
(* Game (main.py): the states LOGIN, MAP_MENU, PLAYING, DIALOGUE,          *)
(* DEATH_MENU and VICTORY.  In a PLAYING frame the steps handle_input and  *)
(* Player.update (lines 578-586), which SpecPlayer and SpecRun follow on   *)
(* their own, are taken by their outcome: the player the physics step      *)
(* leaves, drawn from FramePlayers.  Everything after it is the code's.     *)
(***************************************************************************)
TOTAL_LEVELS == 12
BOSS_UNLOCK_STARS == 22

\* a returning player: levels 1 to 10 finished at the first attempt
ReturningDb ==
  [ NewDb EXCEPT
      !.attempts = [k \in 1..10 |-> [level_id |-> k, attempts |-> 1, stars_earned |-> 3]],
      !.total_stars = 30 ]

StoredDbs == {ReturningDb}

InitGame == \E database \in StoredDbs : InitWith(database)

\* an exception has left handle_events or update: main() has no handler and
\* the program has ended
Crashed == op \in {"Game.update", "Game.handle_events"} /\ error # "none"

\* (mutant) the frames of a dialogue run the play update too
update_branch_play_in_dialogue(st) ==
  IF st \in {"PLAYING", "DIALOGUE"} THEN "_update_play"
  ELSE IF st \in {"DEATH_MENU", "VICTORY"} THEN "dialogue.update"
  ELSE "none"

\* Game.update, lines 568-572: what a frame runs in state st
update_branch(st) ==
  IF st = "PLAYING" THEN "_update_play"
  ELSE IF st \in {"DIALOGUE", "DEATH_MENU", "VICTORY"} THEN "dialogue.update"
  ELSE "none"

\* the outcomes of the physics step the frames are followed for: x, y of the
\* rectangle, vertical velocity (tenths) and on_ground
FramePlayer(x, y, vy, on_ground) ==
  [player EXCEPT !.rect.x = x, !.rect.y = y, !.vel = [x |-> 0, y |-> vy],
                 !.on_ground = on_ground]

\* level 1: standing at the spawn point, falling through the gap at x = 640
\* with the bottom edge and with the top edge below SCREEN_HEIGHT + 200,
\* standing at the goal; level 11: standing at
\* the spawn point, and on the goal platform inside the goal zone, where
\* the last axe swings
FramePlayers ==
  IF level_id = 1
    THEN { FramePlayer(80, 560, 0, TRUE),
           FramePlayer(640, 870, MAX_FALL_SPEED, FALSE),
           FramePlayer(640, 926, MAX_FALL_SPEED, FALSE),
           FramePlayer(2950, 560, 0, TRUE) }
  ELSE { FramePlayer(80, 560, 0, TRUE), FramePlayer(6460, 200, 0, TRUE) }

\* the rows of Deaths and of LevelAttempts the runs are followed to
MaxDeaths == 2
MaxGameRows == 11

\* the frame time of the frames followed
GameFrameTimes == {100}

\* the death test of _update_play (lines 590-591)
is_dead(rect, hazard_hit) == top(rect) > SCREEN_HEIGHT + 200 \/ hazard_hit

\* (mutant) the goal is tested before the death
frame_outcome_goal_first(dead, at_goal) ==
  IF at_goal THEN "victory" ELSE IF dead THEN "death" ELSE "alive"

\* how _update_play resolves a frame (lines 590-599)
frame_outcome(dead, at_goal) ==
  IF dead THEN "death" ELSE IF at_goal THEN "victory" ELSE "alive"

\* (mutant) the death menu comes with the twentieth attempt
death_state_from_twenty(attempts) ==
  IF attempts >= 20 THEN "DEATH_MENU" ELSE "DIALOGUE"

\* the state handle_death leaves (lines 388-393)
death_state(attempts) == IF attempts > 20 THEN "DEATH_MENU" ELSE "DIALOGUE"

\* Game.handle_death; LevelManager.log_death swallows every exception
handle_death(reason_position, fail_at, failure) ==
  /\ current_attempts' = current_attempts + 1
  /\ db' = db_log_death(db, level_id, reason_position[1], reason_position[2],
                        fail_at, failure).db
  /\ dialogue' = [active |-> TRUE, locked |-> TRUE]
  /\ state' = death_state(current_attempts + 1)
  /\ error' = "none"
  /\ UNCHANGED << current_user, map_progress, camera_x, message_text, last_victory >>

\* Game.handle_victory: fail_at 1 to 3 are the _execute calls of
\* record_level_attempt, 4 is the one of get_player_level_stars; only
\* RuntimeError is caught
handle_victory(fail_at, failure) ==
  LET stars == calculate_star_rating(current_attempts)
      rec == record_level_attempt(db, level_id, current_attempts, stars, fail_at, failure)
      exc == IF ~current_user.present THEN "none"
             ELSE IF rec.error # "none" THEN rec.error
             ELSE IF fail_at = 4 THEN failure
             ELSE "none"
  IN  /\ db' = IF current_user.present THEN rec.db ELSE db
      /\ IF current_user.present /\ exc = "none"
           THEN /\ map_progress' = get_player_level_stars(rec.db)
                /\ current_user' = [current_user EXCEPT
                     !.total_stars = sum_values(get_player_level_stars(rec.db))]
           ELSE UNCHANGED << map_progress, current_user >>
      /\ message_text' = IF exc = "RuntimeError" THEN "Save Error" ELSE message_text
      /\ IF exc \in {"none", "RuntimeError"}
           THEN /\ last_victory' = [level |-> level_id, stars |-> stars]
                /\ state' = "VICTORY"
                /\ error' = "none"
           ELSE /\ UNCHANGED << last_victory, state >>
                /\ error' = exc
      /\ UNCHANGED << current_attempts, camera_x, dialogue >>

\* (mutant) the offset is clamped at 0 only
update_camera_open_right(camera, rect, length) ==
  LET target == (centerx(rect) * 100 - SCREEN_WIDTH * 35) * 10
      d == target - camera
      moved == camera + (IF d >= 0 THEN (d * 12) \div 100 ELSE -((-d * 12) \div 100))
  IN  Max(0, moved)

\* Game._update_camera, camera_x in thousandths of a pixel
update_camera(camera, rect, length) ==
  LET target == (centerx(rect) * 100 - SCREEN_WIDTH * 35) * 10
      max_scroll == Max(0, length - SCREEN_WIDTH) * 1000
      d == target - camera
      moved == camera + (IF d >= 0 THEN (d * 12) \div 100 ELSE -((-d * 12) \div 100))
  IN  Max(0, Min(moved, max_scroll))

\* Game.update in the state PLAYING: _update_play
update_play(p, dt, fail_at, failure) ==
  /\ update_branch(state) = "_update_play" /\ ~Crashed
  /\ clock < MaxClock
  /\ player' = p
  /\ HazardsUpdate(dt, p.rect)
  /\ \E dead \in {is_dead(p.rect,
                    hazard_collision(static_traps, oscillators', trigger_spikes',
                                     swing_axes', chasers', crushing_hazards', p.rect))} :
     \E at_goal \in {RectTruthy(goal_rect)
                       /\ colliderect(p.rect, inflate(goal_rect, 25, 25))} :
     \E outcome \in {frame_outcome(dead, at_goal)} :
       /\ result' = outcome
       /\ IF outcome = "death"
            THEN /\ fail_at \in 0..1
                 /\ handle_death(<< centerx(p.rect), centery(p.rect) >>, fail_at, failure)
          ELSE IF outcome = "victory"
            THEN handle_victory(fail_at, failure)
          ELSE /\ fail_at = 0 /\ failure = "RuntimeError"
               /\ camera_x' = update_camera(camera_x, p.rect, level_length)
               /\ error' = "none"
               /\ UNCHANGED << current_attempts, state, current_user, map_progress,
                               message_text, dialogue, last_victory, db >>
  /\ op' = "Game.update"
  /\ arg' = [dt |-> dt, fail_at |-> fail_at]
  /\ UNCHANGED << current_level_index, level_id, level_length, spawn_point,
                  goal_rect, static_traps, historyVars >>

\* Game.update in the states DIALOGUE, DEATH_MENU and VICTORY:
\* dialogue.update, taken when DIALOGUE_DISPLAY_MS have passed and the
\* dialogue unlocks
dialogue_update ==
  /\ update_branch(state) = "dialogue.update" /\ ~Crashed
  /\ dialogue.locked
  /\ dialogue' = [dialogue EXCEPT !.locked = FALSE]
  /\ op' = "Game.update" /\ arg' = None /\ result' = None /\ error' = "none"
  /\ UNCHANGED << levelVars, player, state, current_user, map_progress, camera_x,
                  message_text, last_victory, db, historyVars >>

\* the part every event action shares
Event(name) ==
  /\ ~Crashed
  /\ op' = "Game.handle_events" /\ arg' = name /\ result' = None

\* _handle_auth_event with a successful login of the player; fail_at = 1
\* when the read of the star map fails
login(fail_at, failure) ==
  /\ state = "LOGIN"
  /\ Event("login")
  /\ IF fail_at = 0
       THEN /\ map_progress' = get_player_level_stars(db)
            /\ current_user' = [present |-> TRUE, id |-> 1,
                                total_stars |-> sum_values(get_player_level_stars(db))]
       ELSE /\ current_user' = [present |-> TRUE, id |-> 1, total_stars |-> db.total_stars]
            /\ UNCHANGED map_progress
  /\ IF fail_at = 0 \/ failure = "RuntimeError"
       THEN state' = "MAP_MENU" /\ message_text' = "Welcome." /\ error' = "none"
       ELSE UNCHANGED << state, message_text >> /\ error' = failure
  /\ UNCHANGED << levelVars, player, camera_x, dialogue, last_victory, db, historyVars >>

\* (mutant) the second level is open like the first
is_level_unlocked_second_free(level_num) ==
  IF level_num <= 2 THEN TRUE
  ELSE IF level_num <= TOTAL_LEVELS THEN map_progress[level_num - 1] > 0
  ELSE IF level_num = TOTAL_LEVELS + 1 THEN current_user.total_stars >= BOSS_UNLOCK_STARS
  ELSE FALSE

\* Game._is_level_unlocked
is_level_unlocked(level_num) ==
  IF level_num = 1 THEN TRUE
  ELSE IF level_num <= TOTAL_LEVELS THEN map_progress[level_num - 1] > 0
  ELSE IF level_num = TOTAL_LEVELS + 1 THEN current_user.total_stars >= BOSS_UNLOCK_STARS
  ELSE FALSE

\* _handle_map_menu_event, a click on level node i
select_level(i) ==
  /\ state = "MAP_MENU"
  /\ Event("select_level")
  /\ IF is_level_unlocked(i)
       THEN /\ LoadLevelEffect(resolve_index(i - 1))
            /\ player' = set_spawn(player,
                 LevelFromBlueprint(PyGet(LEVEL_BLUEPRINTS, resolve_index(i - 1))).spawn_point)
            /\ camera_x' = 0
            /\ current_attempts' = 0
            /\ state' = "PLAYING"
            /\ message_text' = "Entering"
       ELSE /\ message_text' = "Locked"
            /\ error' = "none"
            /\ UNCHANGED << levelVars, player, camera_x, state >>
  /\ UNCHANGED << current_user, map_progress, dialogue, last_victory, db, historyVars >>

\* _handle_play_event, the escape key
play_escape ==
  /\ state = "PLAYING"
  /\ Event("escape")
  /\ state' = "MAP_MENU" /\ error' = "none"
  /\ UNCHANGED << levelVars, player, current_user, map_progress, camera_x,
                  message_text, dialogue, last_victory, db, historyVars >>

\* handle_events in the state DIALOGUE, a key pressed once the dialogue has
\* unlocked (lines 438-443)
dialogue_key ==
  /\ state = "DIALOGUE" /\ ~(dialogue.active /\ dialogue.locked)
  /\ Event("key")
  /\ dialogue' = [active |-> FALSE, locked |-> FALSE]
  /\ player' = reset(player)
  /\ camera_x' = 0
  /\ state' = "PLAYING" /\ error' = "none"
  /\ UNCHANGED << levelVars, current_user, map_progress, message_text,
                  last_victory, db, historyVars >>

\* _handle_death_menu_event: the Retry button and the Menu button
death_menu_retry ==
  /\ state = "DEATH_MENU"
  /\ Event("retry")
  /\ player' = reset(player)
  /\ camera_x' = 0
  /\ state' = "PLAYING" /\ error' = "none"
  /\ UNCHANGED << levelVars, current_user, map_progress, message_text, dialogue,
                  last_victory, db, historyVars >>

death_menu_menu ==
  /\ state = "DEATH_MENU"
  /\ Event("menu")
  /\ player' = reset(player)
  /\ state' = "MAP_MENU" /\ error' = "none"
  /\ UNCHANGED << levelVars, current_user, map_progress, camera_x, message_text,
                  dialogue, last_victory, db, historyVars >>

\* (mutant) the buttons of the victory screen leave the attempt counter
victory_button_keeps_attempts(next_state) ==
  /\ state = "VICTORY"
  /\ Event(IF next_state = "PLAYING" THEN "replay" ELSE "continue")
  /\ player' = set_spawn(player, spawn_point)
  /\ camera_x' = 0
  /\ state' = next_state /\ error' = "none"
  /\ LevelDataUnchanged
  /\ UNCHANGED << current_level_index, current_attempts, current_user, map_progress,
                  message_text, dialogue, last_victory, db, historyVars >>

\* _handle_victory_event: the Continue button and the Replay button
victory_button(next_state) ==
  /\ state = "VICTORY"
  /\ Event(IF next_state = "PLAYING" THEN "replay" ELSE "continue")
  /\ current_attempts' = 0
  /\ player' = set_spawn(player, spawn_point)
  /\ camera_x' = 0
  /\ state' = next_state /\ error' = "none"
  /\ LevelDataUnchanged
  /\ UNCHANGED << current_level_index, current_user, map_progress, message_text,
                  dialogue, last_victory, db, historyVars >>

\* the time a level is played for after it is loaded
MaxGameClock == 400

\* the level nodes clicked on the map; the death menu, which takes 21 deaths
\* in a row, is followed in SpecDeaths
GameNodes == {1, 11, 12}

NextGame ==
  \/ \E fail_at \in 0..1, failure \in DbFailures : login(fail_at, failure)
  \/ \E i \in GameNodes : select_level(i)
  \/ \E p \in FramePlayers, dt \in GameFrameTimes, fail_at \in 0..4, failure \in DbFailures :
       /\ clock < MaxGameClock
       /\ db.deaths.count < MaxDeaths /\ Len(db.attempts) < MaxGameRows
       /\ update_play(p, dt, fail_at, failure)
  \/ dialogue_update
  \/ play_escape
  \/ dialogue_key
  \/ victory_button("MAP_MENU")
  \/ victory_button("PLAYING")

SpecGame == InitGame /\ [][NextGame]_vars

\* A run of deaths in level 1: the player of every frame is sunk into the
\* first trap or has fallen through the gap at x = 640, until the death menu
\* has come up.
DyingPlayers ==
  { FramePlayer(420, 565, MAX_FALL_SPEED, FALSE),
    FramePlayer(640, 926, MAX_FALL_SPEED, FALSE) }

\* the attempts a run of deaths is followed to
MaxRunAttempts == 22

NextDeaths ==
  \/ login(0, "RuntimeError")
  \/ select_level(1)
  \/ \E p \in DyingPlayers, dt \in GameFrameTimes, fail_at \in 0..1 :
       /\ current_attempts < MaxRunAttempts /\ db.deaths.count < MaxRunAttempts
       /\ update_play(p, dt, fail_at, "RuntimeError")
  \/ dialogue_update
  \/ dialogue_key
  \/ death_menu_retry
  \/ death_menu_menu

SpecDeaths == Init /\ [][NextDeaths]_vars

(***************************************************************************)
(* check_hazard_collision asked about any rectangle while the hazards of   *)
(* the level are in play                                                   *)
(***************************************************************************)
\* the rectangles asked about, which are also the player rectangles of the
\* frames: the spawn point, the rectangle of test_hazard_collision_check
\* inside the first trap, two pixels into the second crusher from below,
\* the top left corner where the chasers wait for their first
\* update, beside the second oscillator, in the first trigger zone, beside
\* its spike, under the first axe, and at the first chaser
CollideRects ==
  { Rect(80, 580, PLAYER_WIDTH, PLAYER_HEIGHT),
    Rect(402, 622, 75, 35),
    Rect(420, 338, PLAYER_WIDTH, PLAYER_HEIGHT),
    Rect(0, 0, PLAYER_WIDTH, PLAYER_HEIGHT),
    Rect(684, 440, PLAYER_WIDTH, PLAYER_HEIGHT),
    Rect(1000, 320, PLAYER_WIDTH, PLAYER_HEIGHT),
    Rect(1076, 376, PLAYER_WIDTH, PLAYER_HEIGHT),
    Rect(1180, 330, PLAYER_WIDTH, PLAYER_HEIGHT),
    Rect(1826, 330, PLAYER_WIDTH, PLAYER_HEIGHT) }

\* the hazards are followed for this many milliseconds before they are asked
MaxCollideClock == 300

\* LevelManager.check_hazard_collision(rect), called from outside a frame
CheckHazardCollision(rect) ==
  /\ op' = "check_hazard_collision"
  /\ arg' = rect
  /\ result' = check_hazard_collision(rect)
  /\ error' = "none"
  /\ UNCHANGED << levelVars, player, gameVars, historyVars >>

NextCollide ==
  \/ \E dt \in FrameTimes, r \in CollideRects :
       clock < MaxCollideClock /\ update_hazards(dt, r)
  \/ \E r \in CollideRects : CheckHazardCollision(r)

SpecCollide == Init /\ [][NextCollide]_vars

(***************************************************************************)
(* The camera over a long run to the right end of level 1: the player is   *)
(* past the goal for the first CameraRunTime milliseconds, and anywhere    *)
(* among CameraPlayers after that.                                         *)
(***************************************************************************)
MaxCameraClock == 2400
CameraRunTime == 2000
MaxCameraRows == 1

\* falling at the right end of the level, standing at the spawn point and
\* on the sixth platform, fallen below the world bottom, standing at the
\* goal
CameraPlayers ==
  IF clock < CameraRunTime
    THEN { FramePlayer(3500, 700, MAX_FALL_SPEED, FALSE) }
    ELSE { FramePlayer(3500, 700, MAX_FALL_SPEED, FALSE),
           FramePlayer(80, 560, 0, TRUE),
           FramePlayer(1900, 520, 0, TRUE),
           FramePlayer(640, 926, MAX_FALL_SPEED, FALSE),
           FramePlayer(2950, 560, 0, TRUE) }

NextCamera ==
  \/ login(0, "RuntimeError")
  \/ select_level(1)
  \/ \E p \in CameraPlayers, dt \in GameFrameTimes :
       /\ clock < MaxCameraClock
       /\ db.deaths.count < MaxDeaths /\ Len(db.attempts) < MaxCameraRows
       /\ update_play(p, dt, 0, "RuntimeError")
  \/ dialogue_update
  \/ dialogue_key
  \/ play_escape
  \/ victory_button("MAP_MENU")
  \/ victory_button("PLAYING")

SpecCamera == Init /\ [][NextCamera]_vars

(***************************************************************************)
(* Accounts: the table Players of a database whose schema has just been    *)
(* created (test_database.py, setUp), under create_user, authenticate_user *)
(* and delete_user.  Usernames are compared exactly, as SQLite compares    *)
(* them.                                                                   *)
(***************************************************************************)
Usernames == {"testuser", "nonexistent", ""}
Passwords == {"password123", "wrongpassword"}
PlayerNames == {"Test Name", None}

\* ids are handed out up to this one
MaxUserId == 3

\* the SHA-256 digest of a password: one digest per password
hash_password(raw_password) == << "sha256", raw_password >>

EmptyDb == [players |-> << >>, next_id |-> 1]

\* what authenticate_user returns when it returns None
NoRecord == [found |-> FALSE, id |-> 0, username |-> "", total_stars |-> 0, name |-> None]

\* DatabaseManager.create_user: the INSERT fails on a username that is
\* taken (UNIQUE) or when the driver fails; the id is the identity column's
create_user(database, username, password, name, failure) ==
  IF \E k \in 1..Len(database.players) : database.players[k].username = username
    THEN [db |-> database, user_id |-> -1, error |-> "RuntimeError"]
  ELSE IF failure # "none"
    THEN [db |-> database, user_id |-> -1, error |-> failure]
  ELSE [ db |-> [database EXCEPT
                   !.players = Append(@, [id |-> database.next_id,
                                          username |-> username,
                                          password_hash |-> hash_password(password),
                                          name |-> name,
                                          total_stars |-> 0]),
                   !.next_id = @ + 1],
         user_id |-> database.next_id,
         error |-> "none" ]

\* (mutant) the password is not compared
authenticate_user_any_password(database, username, password) ==
  IF \E k \in 1..Len(database.players) : database.players[k].username = username
    THEN LET k == CHOOSE k \in 1..Len(database.players) :
                    database.players[k].username = username
             record == database.players[k]
         IN  [found |-> TRUE, id |-> record.id, username |-> record.username,
              total_stars |-> record.total_stars, name |-> record.name]
    ELSE NoRecord

\* DatabaseManager.authenticate_user
authenticate_user(database, username, password) ==
  IF \E k \in 1..Len(database.players) : database.players[k].username = username
    THEN LET k == CHOOSE k \in 1..Len(database.players) :
                    database.players[k].username = username
             record == database.players[k]
         IN  IF hash_password(password) # record.password_hash THEN NoRecord
             ELSE [found |-> TRUE, id |-> record.id, username |-> record.username,
                   total_stars |-> record.total_stars, name |-> record.name]
    ELSE NoRecord

RECURSIVE delete_rows(_, _)
delete_rows(rows, user_id) ==
  IF rows = << >> THEN << >>
  ELSE IF Head(rows).id = user_id THEN delete_rows(Tail(rows), user_id)
  ELSE << Head(rows) >> \o delete_rows(Tail(rows), user_id)

\* DatabaseManager.delete_user: the DELETE on Level_Attempts, then the
\* DELETE on Players, each with its commit; any exception is caught and the
\* answer is False
delete_user(database, user_id, fail_at) ==
  IF fail_at \in {1, 2} THEN [db |-> database, result |-> FALSE]
  ELSE [db |-> [database EXCEPT !.players = delete_rows(@, user_id)], result |-> TRUE]

AccountStep(name, a, r, e, database) ==
  /\ op' = name /\ arg' = a /\ result' = r /\ error' = e
  /\ db' = database
  /\ UNCHANGED << levelVars, player, state, current_user, map_progress, camera_x,
                  message_text, dialogue, last_victory, historyVars >>

CreateUser(username, password, name, failure) ==
  /\ db.next_id <= MaxUserId
  /\ LET r == create_user(db, username, password, name, failure)
     IN  AccountStep("create_user",
                     [username |-> username, password |-> password, name |-> name],
                     r.user_id, r.error, r.db)

AuthenticateUser(username, password) ==
  AccountStep("authenticate_user", [username |-> username, password |-> password],
              authenticate_user(db, username, password), "none", db)

DeleteUser(user_id, fail_at) ==
  LET r == delete_user(db, user_id, fail_at)
  IN  AccountStep("delete_user", [user_id |-> user_id], r.result, "none", r.db)

NextAccounts ==
  \/ \E u \in Usernames, p \in Passwords, n \in PlayerNames,
        failure \in {"none"} \cup DbFailures : CreateUser(u, p, n, failure)
  \/ \E u \in Usernames, p \in Passwords : AuthenticateUser(u, p)
  \/ \E user_id \in 1..MaxUserId, fail_at \in 0..2 : DeleteUser(user_id, fail_at)

InitAccounts == InitWith(EmptyDb)

SpecAccounts == InitAccounts /\ [][NextAccounts]_vars

(***************************************************************************)
(* Frames of play computed by the player's physics, around the             *)
(* disappearing platform of the first level                                *)
(***************************************************************************)
MaxFrameClock == 600

\* the player has landed on the disappearing platform of level 1
\* (1400..1600 at y = 500) to the right of its trigger zone (1400..1480)
ArrivedPlayers ==
  { FramePlayer(1484, 440, 0, TRUE),
    FramePlayer(1492, 440, 0, TRUE),
    FramePlayer(1500, 440, 0, TRUE) }

\* (mutant) a platform whose trigger the moved rectangle touches is already
\* gone for the physics step of the same frame
physics_step_same_frame(keyLeft, keyRight, dt) ==
  LET p0 == handle_input(player, keyLeft, keyRight)
      seen == update(p0, dt, platforms, level_length).p
      dps == [k \in 1..Len(disappearing_platforms) |->
                DisappearingPlatform_update(disappearing_platforms[k], seen.rect)]
  IN  update(p0, dt, remove_triggered(platforms, dps, 1), level_length).p

\* Game._update_play, lines 578-585: handle_input(keys), then Player.update
\* against the platform list as the previous frame left it
physics_step(keyLeft, keyRight, dt) ==
  update(handle_input(player, keyLeft, keyRight), dt, platforms, level_length).p

\* Game._update_play with the keys held in this frame
update_play_keys(keyLeft, keyRight, dt) ==
  \E p \in {physics_step(keyLeft, keyRight, dt)} :
    update_play(p, dt, 0, "RuntimeError")

\* the frames up to the landing are taken in one step; from then on every
\* frame is computed, with the left key held or no key
NextFrames ==
  \/ login(0, "RuntimeError")
  \/ select_level(1)
  \/ \E p \in ArrivedPlayers, dt \in SteadyFrameTimes :
       clock = 0 /\ update_play(p, dt, 0, "RuntimeError")
  \/ \E keyLeft \in BOOLEAN, dt \in SteadyFrameTimes :
       /\ clock > 0 /\ clock < MaxFrameClock
       /\ update_play_keys(keyLeft, FALSE, dt)

SpecFrames == Init /\ [][NextFrames]_vars

(***************************************************************************)
(* The crushers of the loaded level, updated with any player rectangle, as *)
(* test_crushing_hazard_slam drives one                                    *)
(***************************************************************************)
\* player rectangles: far from both crushers of level 1, under the second,
\* under the first, and 100 px to the side of the first (just not near)
CrusherPlayerRects ==
  { Rect(80, 580, PLAYER_WIDTH, PLAYER_HEIGHT),
    Rect(420, 560, PLAYER_WIDTH, PLAYER_HEIGHT),
    Rect(1980, 520, PLAYER_WIDTH, PLAYER_HEIGHT),
    Rect(1920, 520, PLAYER_WIDTH, PLAYER_HEIGHT) }

\* the loop over crushing_hazards of update_hazards: CrushingHazard.update
\* on every crusher
CrushingHazardsUpdate(dt, player_rect) ==
  /\ crushing_hazards' = [k \in 1..Len(crushing_hazards) |->
                            CrushingHazard_update(crushing_hazards[k], dt, player_rect)]
  /\ op' = "CrushingHazard.update"
  /\ arg' = [player_rect |-> player_rect]
  /\ result' = None /\ error' = "none"
  /\ UNCHANGED << current_level_index, level_id, current_attempts, level_length,
                  spawn_point, goal_rect, platforms, static_traps, oscillators,
                  trigger_spikes, swing_axes, chasers, disappearing_platforms,
                  clock, player, gameVars, historyVars >>

NextCrusher ==
  \E dt \in FrameTimes, r \in CrusherPlayerRects : CrushingHazardsUpdate(dt, r)

SpecCrusher == Init /\ [][NextCrusher]_vars

\* the state after a first frame with the player at the spawn point, which
\* moves no crusher
InitCrusherLive ==
  InitCalled(NewDb, "CrushingHazard.update",
             [player_rect |-> Rect(80, 580, PLAYER_WIDTH, PLAYER_HEIGHT)])

\* frames keep being processed
SpecCrusherLive ==
  InitCrusherLive /\ [][NextCrusher]_vars /\ WF_vars(NextCrusher)

(***************************************************************************)
(* The chasers of the loaded level, updated with player rectangles on      *)
(* either side of them, as test_chasing_hazard_logic drives one            *)
(***************************************************************************)
MaxChaseClock == 500

\* player rectangles with their centre 7 px right of the first chaser's
\* spawn, 10 px left of it, 7 px right of the second chaser's spawn, and far
\* to the left of both
ChaserPlayerRects ==
  { Rect(1787, 520, PLAYER_WIDTH, PLAYER_HEIGHT),
    Rect(1770, 520, PLAYER_WIDTH, PLAYER_HEIGHT),
    Rect(2587, 560, PLAYER_WIDTH, PLAYER_HEIGHT),
    Rect(80, 580, PLAYER_WIDTH, PLAYER_HEIGHT) }

\* the loop over chasers of update_hazards: ChasingHazard.update on every
\* chaser
ChasingHazardsUpdate(dt, player_rect) ==
  /\ clock < MaxChaseClock
  /\ chasers' = [k \in 1..Len(chasers) |->
                   ChasingHazard_update(chasers[k], dt, player_rect)]
  /\ clock' = clock + dt
  /\ op' = "ChasingHazard.update"
  /\ arg' = [dt |-> dt, player_rect |-> player_rect]
  /\ result' = None /\ error' = "none"
  /\ UNCHANGED << current_level_index, level_id, current_attempts, level_length,
                  spawn_point, goal_rect, platforms, static_traps, oscillators,
                  trigger_spikes, swing_axes, crushing_hazards,
                  disappearing_platforms, player, gameVars, historyVars >>

NextChaser ==
  \E dt \in FrameTimes, r \in ChaserPlayerRects : ChasingHazardsUpdate(dt, r)

SpecChaser == Init /\ [][NextChaser]_vars

(***************************************************************************)
(* collides(rect) of every moving hazard of the loaded level               *)
(***************************************************************************)
\* the rectangles of CollideRects, and a player-sized one reaching 2 px into
\* the left edge of the second oscillator of level 1 at rest
HitboxRects ==
  CollideRects \cup { Rect(562, 430, PLAYER_WIDTH, PLAYER_HEIGHT) }

\* h.collides(rect) for every hazard h with a collides method, as
\* check_hazard_collision calls them
Collides(rect) ==
  /\ op' = "collides"
  /\ arg' = rect
  /\ result' =
       [ oscillators |-> [k \in 1..Len(oscillators) |->
                            OscillatingHazard_collides(oscillators[k], rect)],
         trigger_spikes |-> [k \in 1..Len(trigger_spikes) |->
                               TriggerSpike_collides(trigger_spikes[k], rect)],
         swing_axes |-> [k \in 1..Len(swing_axes) |->
                           SwingingAxe_collides(swing_axes[k], rect)],
         chasers |-> [k \in 1..Len(chasers) |->
                        ChasingHazard_collides(chasers[k], rect)],
         crushing_hazards |-> [k \in 1..Len(crushing_hazards) |->
                                 CrushingHazard_collides(crushing_hazards[k], rect)] ]
  /\ error' = "none"
  /\ UNCHANGED << levelVars, player, gameVars, historyVars >>

NextHitbox ==
  \/ \E dt \in FrameTimes, r \in HitboxRects :
       clock < MaxCollideClock /\ update_hazards(dt, r)
  \/ \E r \in HitboxRects : Collides(r)

SpecHitbox == Init /\ [][NextHitbox]_vars

(***************************************************************************)
(* Trigger spikes that are updated and asked whether they hit              *)
(***************************************************************************)
\* rectangles over the first spike of level 1 where it hides, over
\* it where it ends, and away from it
SpikeProbeRects ==
  { Rect(1040, 400, PLAYER_WIDTH, PLAYER_HEIGHT),
    Rect(1040, 340, PLAYER_WIDTH, PLAYER_HEIGHT),
    Rect(80, 580, PLAYER_WIDTH, PLAYER_HEIGHT) }

\* TriggerSpike.collides(rect) on the spike at position i
TriggerSpikeCollides(i, rect) ==
  /\ op' = "TriggerSpike.collides"
  /\ arg' = [i |-> i, rect |-> rect]
  /\ result' = TriggerSpike_collides(trigger_spikes[i], rect)
  /\ error' = "none"
  /\ UNCHANGED << levelVars, player, gameVars, historyVars >>

NextSpikeHit ==
  \/ \E i \in 1..Len(trigger_spikes), dt \in FrameTimes, r \in SpikePlayerRects :
       TriggerSpikeUpdate(i, dt, r)
  \/ \E i \in 1..Len(trigger_spikes), r \in SpikeProbeRects :
       TriggerSpikeCollides(i, r)

SpecSpikeHit == Init /\ [][NextSpikeHit]_vars

(***************************************************************************)
(* Frames in every game state: play, the dialogue after a death, the death *)
(* menu after the twenty-first, the victory screen, login and map          *)
(***************************************************************************)
\* Game.update in a state other than PLAYING: dialogue.update(delta) in the
\* three dialogue states, where the lock ends once its time is over
\* (expired), and nothing else
update_not_playing(expired) ==
  /\ update_branch(state) # "_update_play" /\ ~Crashed
  /\ dialogue' = IF update_branch(state) = "dialogue.update" /\ dialogue.locked /\ expired
                   THEN [dialogue EXCEPT !.locked = FALSE]
                   ELSE dialogue
  /\ op' = "Game.update" /\ arg' = [expired |-> expired]
  /\ result' = None /\ error' = "none"
  /\ UNCHANGED << levelVars, player, state, current_user, map_progress, camera_x,
                  message_text, last_victory, db, historyVars >>

\* victories recorded in one run
MaxIdleRows == 1

\* a player in the pit of level 1 and one at its goal
IdlePlayers ==
  { FramePlayer(640, 926, MAX_FALL_SPEED, FALSE),
    FramePlayer(2950, 560, 0, TRUE) }

NextIdle ==
  \/ login(0, "RuntimeError")
  \/ select_level(1)
  \/ \E p \in IdlePlayers, dt \in GameFrameTimes :
       /\ current_attempts < MaxRunAttempts /\ db.deaths.count < MaxRunAttempts
       /\ Len(db.attempts) < MaxIdleRows
       /\ update_play(p, dt, 0, "RuntimeError")
  \/ \E expired \in BOOLEAN : update_not_playing(expired)
  \/ dialogue_key
  \/ death_menu_retry
  \/ death_menu_menu
  \/ victory_button("MAP_MENU")
  \/ victory_button("PLAYING")

SpecIdle == Init /\ [][NextIdle]_vars

(***************************************************************************)
(* The game modes: every handler of handle_events and update that assigns  *)
(* Game.state, from the login screen on, for a new player and for a        *)
(* returning one                                                           *)
(***************************************************************************)
\* (mutant) the deletion logs the user out and stays on the map
map_delete_account_stays_on_map(fail_at) ==
  /\ state = "MAP_MENU"
  /\ Event("delete_account")
  /\ error' = "none"
  /\ current_user' = NoUser
  /\ UNCHANGED << levelVars, player, state, map_progress, camera_x, message_text,
                  dialogue, last_victory, db, historyVars >>

\* _handle_map_menu_event, a click on the Delete Account button (lines
\* 524-532).  db_manager.delete_user deletes the rows of Level_Attempts,
\* then the row of Players, and answers False when one of the two fails
\* (fail_at); the handler does not read the answer.  The player who logs in
\* after a deletion that went through is the one who signs up next.
map_delete_account(fail_at) ==
  /\ state = "MAP_MENU"
  /\ Event("delete_account")
  /\ error' = "none"
  /\ IF current_user.present
       THEN /\ db' = IF fail_at = 1 THEN db
                     ELSE IF fail_at = 2 THEN [db EXCEPT !.attempts = << >>]
                     ELSE [db EXCEPT !.attempts = << >>, !.total_stars = 0]
            /\ current_user' = NoUser
            /\ state' = "LOGIN"
       ELSE UNCHANGED << db, current_user, state >>
  /\ UNCHANGED << levelVars, player, map_progress, camera_x, message_text,
                  dialogue, last_victory, historyVars >>

\* the level nodes clicked on the map: the first level, the second and the
\* boss node.  Deaths are followed in the player's first run of deaths,
\* which is long enough to end in the death menu; the goal is reached in
\* the first level; a deletion that fails at its second statement, which
\* leaves Players.total_stars above the rows that are left, is followed once.
ModeNodes == {1, 2, TOTAL_LEVELS + 1}

\* victories a player records after signing up, or after returning
MaxModeRows == 1

InitModes == \E database \in {NewDb, ReturningDb} : InitWith(database)

NextModes ==
  \/ \E fail_at \in 0..1, failure \in DbFailures : login(fail_at, failure)
  \/ \E i \in ModeNodes : select_level(i)
  \/ \E fail_at \in 0..2 :
       /\ fail_at = 2 => db.total_stars = sum_values(get_player_level_stars(db))
       /\ map_delete_account(fail_at)
  \/ \E p \in IdlePlayers, dt \in GameFrameTimes :
       /\ current_attempts < MaxRunAttempts /\ db.deaths.count < MaxRunAttempts
       /\ \/ Len(db.attempts) < MaxModeRows
          \/ Len(db.attempts) = Len(ReturningDb.attempts)
       /\ IF top(p.rect) > SCREEN_HEIGHT THEN db.deaths.count = current_attempts
                                         ELSE level_id = 1
       /\ update_play(p, dt, 0, "RuntimeError")
  \/ \E expired \in BOOLEAN : update_not_playing(expired)
  \/ play_escape
  \/ dialogue_key
  \/ death_menu_retry
  \/ death_menu_menu
  \/ victory_button("MAP_MENU")
  \/ victory_button("PLAYING")

SpecModes == InitModes /\ [][NextModes]_vars

(***************************************************************************)
(* Properties                                                              *)
(***************************************************************************)
\* interiors of two rectangles overlap (stated apart from colliderect)
Overlaps(a, b) ==
  /\ left(a) < right(b) /\ left(b) < right(a)
  /\ top(a) < bottom(b) /\ top(b) < bottom(a)

OverlapsPlatform(r) == \E k \in 1..Len(platforms) : Overlaps(r, platforms[k])

\* C1: calculate_star_rating returns 3 iff the attempt counter is at most 3,
\* 2 iff it is 4 or 5 and 1 iff it is at least 6, and leaves the counter as
\* it was.
C1_StarRating ==
  [][ op' = "calculate_star_rating" =>
        /\ current_attempts' = current_attempts
        /\ (result' = 3 <=> current_attempts <= 3)
        /\ (result' = 2 <=> (4 <= current_attempts /\ current_attempts <= 5))
        /\ (result' = 1 <=> current_attempts >= 6) ]_vars

C1_Witness ==
  op = "calculate_star_rating" /\ current_attempts = 6 /\ result = 1

\* C2: load_level(index=i) raises nothing for any integer i and leaves the
\* manager on the level at position i mod count: the index is in range,
\* differs from i by a multiple of the number of levels, and level_id is the
\* id of the blueprint at that position.
C2_LoadLevelWraps ==
  op = "load_level" =>
    /\ error = "none"
    /\ current_level_index \in 0..(NumLevels - 1)
    /\ \E q \in -MaxIndex..999 : arg = q * NumLevels + current_level_index
    /\ level_id = LEVEL_BLUEPRINTS[current_level_index + 1].id

C2_Witness ==
  /\ op = "load_level" /\ arg = -1
  /\ current_level_index = NumLevels - 1
  /\ level_id = 13

C4_GroundedOnlyByLanding ==
  [][ (op' = "update" /\ ~OverlapsPlatform(player.rect) /\ player'.on_ground) =>
        /\ int10(Min(player.vel.y + GRAVITY, MAX_FALL_SPEED)) >= 1
        /\ player'.vel.y = 0
        /\ \E k \in 1..Len(platforms) :
             /\ bottom(player'.rect) = top(platforms[k])
             /\ bottom(player.rect) <= top(platforms[k])
             /\ left(player'.rect) < right(platforms[k])
             /\ left(platforms[k]) < right(player'.rect) ]_vars

\* a landing after a fall that began clear of every platform
C4_Witness ==
  /\ op = "update" /\ ~overlapped /\ player.on_ground /\ landed
  /\ ~was_on_ground

\* C5: the vertical velocity never exceeds MAX_FALL_SPEED, and after
\* FramesToTerminal updates in a row of free fall (no platform touched, no
\* jump impulse) it is exactly MAX_FALL_SPEED and stays there while the fall
\* goes on.
C5_FallSpeedCapped ==
  /\ player.vel.y <= MAX_FALL_SPEED
  /\ fall_frames >= FramesToTerminal => player.vel.y = MAX_FALL_SPEED

C5_Witness ==
  /\ op = "update" /\ fall_frames > FramesToTerminal
  /\ player.vel.y = MAX_FALL_SPEED

\* what C6 promises of the update that follows a jump request
FullJumpFired ==
  /\ ~player'.on_ground
  /\ player'.vel.y = JUMP_FORCE
  /\ result' = TRUE

\* C6 (as claimed): a jump requested while the player is on the ground makes
\* the next update, whatever its frame time, end with on_ground false, the
\* vertical velocity JUMP_FORCE and the return value True.
C6_Original ==
  [][ (op = "jump" /\ player.on_ground /\ op' = "update") => FullJumpFired ]_vars

\* C6 (amended): the same, for an update whose frame time is shorter than
\* JUMP_BUFFER_TIME.
C6_GroundJump ==
  [][ \A keyLeft \in BOOLEAN, keyRight \in BOOLEAN, dt \in FrameTimes :
        ( /\ op = "jump" /\ player.on_ground
          /\ dt < JUMP_BUFFER_TIME
          /\ PlayerUpdate(keyLeft, keyRight, dt) ) => FullJumpFired ]_vars

C6_Witness ==
  /\ op = "update" /\ was_on_ground /\ result = TRUE
  /\ ~player.on_ground /\ player.vel.y = JUMP_FORCE

\* the player left a platform without a jump and is in the air
LeftWithoutJump ==
  /\ ~player.on_ground
  /\ full_jumps = 0 /\ air_jumps = 0

\* C7 (as claimed): the player left a platform without jumping, jump() is
\* requested while less than COYOTE_TIME of frame time has passed since the
\* last grounded update: the next update applies JUMP_FORCE.
C7_Original ==
  [][ ( /\ op = "jump" /\ LeftWithoutJump
        /\ since_ground < COYOTE_TIME
        /\ op' = "update" ) => player'.vel.y = JUMP_FORCE ]_vars

\* C7 (amended): the same when the frame time counted from the end of the
\* update in which the player left the ground, through the update that
\* handles the request, is less than COYOTE_TIME.
C7_CoyoteJump ==
  [][ \A keyLeft \in BOOLEAN, keyRight \in BOOLEAN, dt \in FrameTimes :
        ( /\ op = "jump" /\ LeftWithoutJump
          /\ since_left + dt < COYOTE_TIME
          /\ PlayerUpdate(keyLeft, keyRight, dt) ) => player'.vel.y = JUMP_FORCE ]_vars

\* a full jump fired in the air, at least one update after the player left
\* the ground
C7_Witness ==
  /\ op = "update" /\ result = TRUE /\ player.vel.y = JUMP_FORCE
  /\ ~was_on_ground /\ ~landed
  /\ since_left > 0 /\ since_left < COYOTE_TIME
  /\ full_jumps = 1 /\ air_jumps = 0

\* a jump was just requested in the air with no coyote time and no jump left
NoJumpLeft ==
  /\ op = "jump"
  /\ ~player.on_ground
  /\ player.coyote_timer = 0
  /\ player.jumps_left = 0

\* C8 (as claimed): such a request gives no impulse while the player stays
\* in the air: the update returns False and the vertical velocity changes
\* by gravity only.
C8_Original ==
  [][ (NoJumpLeft /\ op' = "update" /\ ~landed') =>
        /\ result' = FALSE
        /\ player'.vel.y = Min(player.vel.y + GRAVITY, MAX_FALL_SPEED) ]_vars

\* C8 (amended): the update returns False, no jump becomes available, and
\* the vertical velocity changes by gravity only, or is 0 because the upward
\* move ended under a platform.
C8_NoJumpWithoutJumpsLeft ==
  [][ (NoJumpLeft /\ op' = "update" /\ ~landed') =>
        /\ result' = FALSE
        /\ player'.jumps_left = 0 /\ player'.coyote_timer = 0
        /\ \/ player'.vel.y = Min(player.vel.y + GRAVITY, MAX_FALL_SPEED)
           \/ /\ player'.vel.y = 0
              /\ player.vel.y + GRAVITY < 0
              /\ \E k \in 1..Len(platforms) :
                   top(player'.rect) = bottom(platforms[k]) ]_vars

\* a request that was not served: it is still buffered after the update
C8_Witness ==
  /\ op = "update" /\ result = FALSE /\ ~landed
  /\ player.jumps_left = 0 /\ player.coyote_timer = 0
  /\ player.jump_buffer_timer > 0

\* C9: after a ground or coyote jump, at most one air jump fires before the
\* player lands again, whatever is requested.
C9_OneAirJump ==
  full_jumps >= 1 => air_jumps <= 1

\* both jumps are used and a further request is waiting in the air
C9_Witness ==
  /\ full_jumps = 1 /\ air_jumps = 1
  /\ op = "jump" /\ ~player.on_ground /\ player.jumps_left = 0

\* C10: an update of a trigger spike never clears active: once true it
\* stays true, wherever the player is and whatever the frame time; only
\* load_level, which builds new spikes, starts again from false.
C10_SpikeStaysActive ==
  [][ op' = "TriggerSpike.update" =>
        \A i \in 1..Len(trigger_spikes) :
          trigger_spikes[i].active => trigger_spikes'[i].active ]_vars

\* a spike is active after an update made with the player outside its zone
C10_Witness ==
  /\ op = "TriggerSpike.update"
  /\ trigger_spikes[arg.i].active
  /\ ~Overlaps(arg.player_rect, trigger_spikes[arg.i].trigger_rect)

\* C11: an update_hazards call whose player rectangle intersects the trigger
\* zone of a disappearing platform leaves the platform's target rectangle
\* out of LevelManager.platforms, and so does every later call: a target
\* that is out of the list stays out until load_level builds the list again.
C11_PlatformStaysRemoved ==
  [][ /\ op' = "update_hazards" =>
           \A i \in 1..Len(disappearing_platforms) :
             Overlaps(arg'.player_rect, disappearing_platforms[i].trigger_rect)
               => ~InSeq(disappearing_platforms[i].target_platform_rect, platforms')
      /\ op' \notin {"load_level", "reload_level", "advance_level"} =>
           \A i \in 1..Len(disappearing_platforms) :
             ~InSeq(disappearing_platforms[i].target_platform_rect, platforms)
               => ~InSeq(disappearing_platforms[i].target_platform_rect, platforms') ]_vars

\* an update made with the player away from the trigger zone, after the
\* platform went
C11_Witness ==
  /\ op = "update_hazards"
  /\ \E i \in 1..Len(disappearing_platforms) :
       /\ ~Overlaps(arg.player_rect, disappearing_platforms[i].trigger_rect)
       /\ ~InSeq(disappearing_platforms[i].target_platform_rect, platforms)

\* C12: a chaser whose timer has reached zero or less is expired for good:
\* it is inactive, collides is false for every rectangle (its own, the one
\* whose shrunk hit box is its own, the player's), and an update_hazards
\* call leaves it as it was: not active again, not moved.
C12_ChaserExpiresForGood ==
  [][ /\ \A k \in 1..Len(chasers') :
           chasers'[k].timer <= 0 =>
             /\ ~chasers'[k].is_active
             /\ \A r \in {chasers'[k].rect, inflate(chasers'[k].rect, 8, 8)} :
                  ~ChasingHazard_collides(chasers'[k], r)
             /\ op' = "update_hazards" => ~ChasingHazard_collides(chasers'[k], arg'.player_rect)
      /\ op' = "update_hazards" =>
           \A k \in 1..Len(chasers) :
             chasers[k].timer <= 0 => chasers'[k] = chasers[k] ]_vars

\* an update made after a chaser has expired
C12_Witness ==
  /\ op = "update_hazards"
  /\ \E k \in 1..Len(chasers) :
       chasers[k].timer <= 0 /\ clock > chasers[k].max_time

\* the blueprint of the level LevelManager is on
CurrentBlueprint == LEVEL_BLUEPRINTS[current_level_index + 1]

\* C20: after load_level every hazard list has one instance per blueprint
\* entry of its kind, in the state its constructor leaves it in; the
\* platform list holds the blueprint's platforms and the targets of its
\* disappearing platforms and nothing else; the static traps are the
\* blueprint's.  Nothing of the level loaded before is left.
C20_LoadLevelBuildsFresh ==
  op = "load_level" =>
    LET bp == CurrentBlueprint IN
    /\ level_id = bp.id
    /\ static_traps = bp.static_traps
    /\ \A k \in 1..Len(bp.platforms) : InSeq(bp.platforms[k], platforms)
    /\ \A k \in 1..Len(bp.disappear) : InSeq(bp.disappear[k].platform, platforms)
    /\ \A k \in 1..Len(platforms) :
         \/ InSeq(platforms[k], bp.platforms)
         \/ \E j \in 1..Len(bp.disappear) : platforms[k] = bp.disappear[j].platform
    /\ Len(oscillators) = Len(bp.oscillators)
    /\ \A k \in 1..Len(oscillators) :
         /\ oscillators[k].rect = bp.oscillators[k].rect
         /\ oscillators[k].base_rect = bp.oscillators[k].rect
         /\ oscillators[k].timer = 0
    /\ Len(trigger_spikes) = Len(bp.triggers)
    /\ \A k \in 1..Len(trigger_spikes) :
         /\ trigger_spikes[k].trigger_rect = bp.triggers[k].trigger
         /\ ~trigger_spikes[k].active
         /\ trigger_spikes[k].rect.x = bp.triggers[k].spike.x
         /\ trigger_spikes[k].rect.y = bp.triggers[k].spike.y + RISE_PIXELS
    /\ Len(swing_axes) = Len(bp.axes)
    /\ \A k \in 1..Len(swing_axes) :
         /\ swing_axes[k].pivot = bp.axes[k].pivot
         /\ swing_axes[k].time = 0
         /\ swing_axes[k].rect = Rect(0, 0, 30, 60)
    /\ Len(chasers) = Len(bp.chasers)
    /\ \A k \in 1..Len(chasers) :
         /\ chasers[k].pos = << bp.chasers[k].spawn[1] * 10, bp.chasers[k].spawn[2] * 10 >>
         /\ chasers[k].timer = bp.chasers[k].max_time
         /\ chasers[k].is_active
         /\ chasers[k].rect = Rect(0, 0, TILE_SIZE, TILE_SIZE)
    /\ Len(disappearing_platforms) = Len(bp.disappear)
    /\ \A k \in 1..Len(disappearing_platforms) :
         /\ disappearing_platforms[k].trigger_rect = bp.disappear[k].trigger
         /\ disappearing_platforms[k].target_platform_rect = bp.disappear[k].platform
         /\ ~disappearing_platforms[k].is_removed
    /\ Len(crushing_hazards) = Len(bp.crushers)
    /\ \A k \in 1..Len(crushing_hazards) :
         /\ crushing_hazards[k].rect = bp.crushers[k].rect
         /\ crushing_hazards[k].state = "IDLE"

\* a level has been loaded whose disappearing platforms are not all among
\* the platforms of its blueprint
C20_Witness ==
  /\ op = "load_level"
  /\ \E k \in 1..Len(CurrentBlueprint.disappear) :
       /\ ~InSeq(CurrentBlueprint.disappear[k].platform, CurrentBlueprint.platforms)
       /\ InSeq(CurrentBlueprint.disappear[k].platform, platforms)

\* C19: a blueprint whose goal or spawn point lies outside the level length
\* is refused with an error, and load_level never makes room for it by
\* stretching the level length: whenever a load returns normally the spawn
\* point and the goal lie within LEVEL_LENGTH and level_length is
\* LEVEL_LENGTH.
C19_MalformedBlueprintRefused ==
  (op \in {"load_level", "reload_level", "advance_level"} /\ error = "none") =>
    /\ 0 <= spawn_point[1] /\ spawn_point[1] <= LEVEL_LENGTH
    /\ 0 <= left(goal_rect) /\ right(goal_rect) <= LEVEL_LENGTH
    /\ level_length = LEVEL_LENGTH

\* C18: over any sequence of record_level_attempt calls the stored
\* total_stars never decreases and equals the sum over the levels of the
\* highest stars_earned recorded for the level, and a call that returns has
\* appended exactly one attempt row.
C18_TotalIsSumOfBest ==
  [][ op' = "record_level_attempt" =>
        /\ db'.total_stars >= db.total_stars
        /\ db'.total_stars = sum_values(get_player_level_stars(db'))
        /\ error' = "none" => Len(db'.attempts) = Len(db.attempts) + 1 ]_vars

\* a step that is a PLAYING frame
PlayFrame == state = "PLAYING" /\ op' = "Game.update" /\ clock' # clock

\* the player of the frame touches a hazard or has fallen past the world
\* bottom, as the frame tests it
FrameDeadly ==
  top(player.rect) > SCREEN_HEIGHT + 200 \/ check_hazard_collision(player.rect)

\* the player of the frame intersects the inflated goal rectangle
FrameAtGoal ==
  RectTruthy(goal_rect) /\ colliderect(player.rect, inflate(goal_rect, 25, 25))

\* C13: a PLAYING frame in which the player touches a hazard (or has fallen
\* past the world bottom) and also intersects the inflated goal rectangle is
\* resolved as a death: the attempt counter goes up by one, the state is a
\* death-feedback state, and no victory is recorded (no attempt row, no
\* change of the last victory, of the star map or of the total).
C13_DeathWinsOverGoal ==
  [][ (PlayFrame /\ FrameDeadly' /\ FrameAtGoal') =>
        /\ current_attempts' = current_attempts + 1
        /\ state' \in {"DIALOGUE", "DEATH_MENU"}
        /\ result' = "death"
        /\ db'.attempts = db.attempts /\ db'.total_stars = db.total_stars
        /\ UNCHANGED << last_victory, map_progress, current_user >> ]_vars

\* a frame of level 11 has ended in which the player stood inside the goal
\* zone while the last axe swung through, and it was resolved as a death
C13_Witness ==
  /\ op = "Game.update" /\ result = "death"
  /\ level_id = 11
  /\ FrameDeadly /\ FrameAtGoal
  /\ state = "DIALOGUE" /\ current_attempts = 1

\* C14: whenever a PLAYING frame detects death, the attempt counter grows by
\* exactly one, the centre of the player is handed to the death log (a row
\* with the level and that position is stored unless the statement fails
\* and the failure is swallowed), the state of the game is DIALOGUE while
\* the new attempt count is at most 20 and DEATH_MENU once it exceeds 20,
\* and the frame neither tests the goal (no attempt row, no victory) nor
\* moves the camera.
C14_DeathFrame ==
  [][ (PlayFrame /\ FrameDeadly') =>
        /\ current_attempts' = current_attempts + 1
        /\ result' = "death" /\ error' = "none"
        /\ db'.deaths =
             IF arg'.fail_at = 0
               THEN [count |-> db.deaths.count + 1,
                     last |-> [level_id |-> level_id,
                               coord_x |-> centerx(player'.rect),
                               coord_y |-> centery(player'.rect)]]
               ELSE db.deaths
        /\ state' = IF current_attempts' <= 20 THEN "DIALOGUE" ELSE "DEATH_MENU"
        /\ dialogue'.active /\ dialogue'.locked
        /\ db'.attempts = db.attempts /\ db'.total_stars = db.total_stars
        /\ UNCHANGED << last_victory, map_progress, current_user, camera_x >> ]_vars

\* the twenty-first death in a row has brought up the death menu, in a
\* frame whose camera update would have moved the camera
C14_Witness ==
  /\ op = "Game.update" /\ result = "death"
  /\ state = "DEATH_MENU" /\ current_attempts = 21
  /\ db.deaths.count >= 1
  /\ update_camera(camera_x, player.rect, level_length) # camera_x

\* C15: in a PLAYING frame, after the physics and the hazard updates, the
\* player is declared dead if the bottom edge of the player's rectangle is
\* beyond SCREEN_HEIGHT + 200 or check_hazard_collision(player.rect) is
\* true, and in no other case.
C15_DeadIffBelowOrHit ==
  [][ PlayFrame =>
        ( (result' = "death")
            <=> ( bottom(player'.rect) > SCREEN_HEIGHT + 200
                  \/ check_hazard_collision(player.rect)' ) ) ]_vars

\* a step in which play resumes after a death or a victory
Resumes == state \in {"DIALOGUE", "DEATH_MENU", "VICTORY"} /\ state' = "PLAYING"

\* C16: when play resumes after a death or a victory, the level's runtime
\* state is the one load_level leaves (the platform list and every hazard
\* instance: spike activation, removed disappearing platforms, chaser
\* countdowns and positions, crusher state, oscillator and axe phase), and
\* the player is at the spawn point with zero velocity.
C16_ResumeResetsLevelAndPlayer ==
  [][ Resumes =>
        LET L == LevelFromBlueprint(CurrentBlueprint) IN
        /\ platforms' = L.platforms
        /\ disappearing_platforms' = L.disappearing_platforms
        /\ oscillators' = L.oscillators
        /\ trigger_spikes' = L.trigger_spikes
        /\ swing_axes' = L.swing_axes
        /\ chasers' = L.chasers
        /\ crushing_hazards' = L.crushing_hazards
        /\ player'.rect.x = spawn_point[1] /\ player'.rect.y = spawn_point[2]
        /\ player'.vel = [x |-> 0, y |-> 0] ]_vars

\* a statement of the victory bookkeeping of the frame has failed
VictorySaveFailed ==
  \/ arg'.fail_at = 4
  \/ record_level_attempt(db, level_id, current_attempts,
                          calculate_star_rating(current_attempts),
                          arg'.fail_at, "RuntimeError").error # "none"

\* C17: no persistence failure stalls or crashes the simulation: whatever
\* the outcome of the death-logging call, handle_death completes and the
\* state is a death-feedback state; whatever the outcome of recording the
\* attempt and of re-reading the star map, handle_victory completes, the
\* state is VICTORY and, after a failure, the flash message is set; and no
\* exception leaves the per-frame update.
C17_PersistenceFailureNotFatal ==
  [][ PlayFrame =>
        /\ error' = "none"
        /\ FrameDeadly' => state' \in {"DIALOGUE", "DEATH_MENU"}
        /\ (~FrameDeadly' /\ FrameAtGoal') =>
             /\ state' = "VICTORY"
             /\ VictorySaveFailed => message_text' = "Save Error" ]_vars

\* C21: check_hazard_collision(rect) returns True iff rect intersects at
\* least one static trap or at least one oscillator, trigger spike, swinging
\* axe, chaser or crusher reports collides(rect), False otherwise, and it
\* changes nothing of the level or of a hazard.
C21_CheckHazardCollision ==
  [][ op' = "check_hazard_collision" =>
        /\ result' \in BOOLEAN
        /\ result' <=>
             \/ \E k \in 1..Len(static_traps) : colliderect(static_traps[k], arg')
             \/ \E k \in 1..Len(oscillators) : OscillatingHazard_collides(oscillators[k], arg')
             \/ \E k \in 1..Len(trigger_spikes) : TriggerSpike_collides(trigger_spikes[k], arg')
             \/ \E k \in 1..Len(swing_axes) : SwingingAxe_collides(swing_axes[k], arg')
             \/ \E k \in 1..Len(chasers) : ChasingHazard_collides(chasers[k], arg')
             \/ \E k \in 1..Len(crushing_hazards) : CrushingHazard_collides(crushing_hazards[k], arg')
        /\ UNCHANGED levelVars ]_vars

\* the answer was True for a rectangle that touches no static trap and no
\* hazard but a crusher
C21_Witness ==
  /\ op = "check_hazard_collision" /\ result = TRUE
  /\ \A k \in 1..Len(static_traps) : ~colliderect(static_traps[k], arg)
  /\ \A k \in 1..Len(oscillators) : ~OscillatingHazard_collides(oscillators[k], arg)
  /\ \A k \in 1..Len(chasers) : ~ChasingHazard_collides(chasers[k], arg)
  /\ \E k \in 1..Len(crushing_hazards) : CrushingHazard_collides(crushing_hazards[k], arg)

\* C22: the attempt counter is 0 whenever play of a level is entered or
\* re-entered, from the map menu or through Continue or Replay after a
\* victory; it grows by exactly one on each death; and nothing else
\* changes it.
C22_AttemptCounterLifecycle ==
  [][ /\ (state \in {"MAP_MENU", "VICTORY"} /\ state' = "PLAYING") => current_attempts' = 0
      /\ (state = "VICTORY" /\ state' = "MAP_MENU") => current_attempts' = 0
      /\ (PlayFrame /\ result' = "death") => current_attempts' = current_attempts + 1
      /\ ( /\ ~(PlayFrame /\ result' = "death")
           /\ ~(state \in {"MAP_MENU", "VICTORY"} /\ state' = "PLAYING")
           /\ ~(state = "VICTORY" /\ state' = "MAP_MENU") )
         => current_attempts' = current_attempts ]_vars

\* a level won after at least one death is being replayed with the counter
\* back at zero
C22_Witness ==
  /\ op = "Game.handle_events" /\ arg = "replay"
  /\ state = "PLAYING" /\ current_attempts = 0
  /\ Len(db.attempts) > 0
  /\ db.attempts[Len(db.attempts)].attempts >= 1

\* C23: after every camera update the camera offset lies between 0 and
\* max(0, level_length - viewport width), wherever the player is; and the
\* offset is 0 whenever play starts or restarts, after a death, a victory
\* or the selection of a level.
C23_CameraClamped ==
  [][ /\ (PlayFrame /\ result' = "alive") =>
           /\ 0 <= camera_x'
           /\ camera_x' <= Max(0, level_length - SCREEN_WIDTH) * 1000
      /\ (state # "PLAYING" /\ state' = "PLAYING") => camera_x' = 0 ]_vars

\* a camera update has stopped the camera at the right end of the level
\* with the target still ahead of it
C23_Witness ==
  /\ op = "Game.update" /\ result = "alive"
  /\ level_length > SCREEN_WIDTH
  /\ camera_x = (level_length - SCREEN_WIDTH) * 1000
  /\ (centerx(player.rect) * 100 - SCREEN_WIDTH * 35) * 10 > camera_x

\* C24: account round trip.  Once create_user(u, p, name) has succeeded,
\* authenticate_user(u, p) returns that user's record, with the id
\* create_user returned, the username and the name, and with any other
\* password it returns None; the answer for a username changes only when
\* that username is created or its user is deleted, so it is None for a
\* username that was never created (the table starts empty) and None again
\* once the user has been deleted; and authenticate_user answers what the
\* table holds and changes nothing.
C24_AccountRoundTrip ==
  [][ /\ op = "init" =>
           \A u \in Usernames, p \in Passwords : authenticate_user(db, u, p) = NoRecord
      /\ (op' = "create_user" /\ error' = "none") =>
           /\ authenticate_user(db', arg'.username, arg'.password) =
                [found |-> TRUE, id |-> result', username |-> arg'.username,
                 total_stars |-> 0, name |-> arg'.name]
           /\ \A p \in Passwords \ {arg'.password} :
                authenticate_user(db', arg'.username, p) = NoRecord
      /\ (op' = "delete_user" /\ result' = TRUE) =>
           \A u \in Usernames, p \in Passwords :
             authenticate_user(db, u, p).id = arg'.user_id =>
               authenticate_user(db', u, p) = NoRecord
      /\ \A u \in Usernames, p \in Passwords :
           authenticate_user(db', u, p) # authenticate_user(db, u, p) =>
             \/ op' = "create_user" /\ error' = "none" /\ arg'.username = u
             \/ /\ op' = "delete_user" /\ result' = TRUE
                /\ authenticate_user(db, u, p).id = arg'.user_id
      /\ op' = "authenticate_user" =>
           /\ result' = authenticate_user(db, arg'.username, arg'.password)
           /\ db' = db ]_vars

\* a user has logged in with the right password after another user was
\* created and deleted
C24_Witness ==
  /\ op = "authenticate_user" /\ result.found
  /\ result.id = 2 /\ result.username = arg.username
  /\ Len(db.players) = 1

\* C25: a crusher only takes the transitions IDLE -> SLAMMING -> RETURNING
\* -> IDLE; IDLE -> SLAMMING only in an update whose player rectangle has
\* its horizontal centre less than 100 px from the crusher's, and the
\* crusher does not move in that update; SLAMMING -> RETURNING only on
\* reaching the target depth; RETURNING -> IDLE only on reaching the base
\* position; and base_y <= rect.y <= base_y + slam_height throughout.
C25_CrusherCycle ==
  [][ \A k \in 1..Len(crushing_hazards) :
        LET c == crushing_hazards[k]
            d == crushing_hazards'[k]
            gap == centerx(arg'.player_rect) - centerx(c.rect)
        IN  op' = "CrushingHazard.update" =>
              /\ c.state # d.state =>
                   << c.state, d.state >> \in { << "IDLE", "SLAMMING" >>,
                                               << "SLAMMING", "RETURNING" >>,
                                               << "RETURNING", "IDLE" >> }
              /\ (c.state = "IDLE" /\ d.state = "SLAMMING") =>
                   -100 < gap /\ gap < 100 /\ d.rect = c.rect
              /\ (c.state = "SLAMMING" /\ d.state = "RETURNING") =>
                   d.rect.y = c.base_rect.y + c.slam_height
              /\ (c.state = "RETURNING" /\ d.state = "IDLE") =>
                   d.rect.y = c.base_rect.y
              /\ c.base_rect.y <= c.rect.y /\ c.rect.y <= c.base_rect.y + c.slam_height
              /\ d.base_rect.y <= d.rect.y /\ d.rect.y <= d.base_rect.y + d.slam_height
              /\ d.base_rect = c.base_rect /\ d.slam_height = c.slam_height ]_vars

\* a crusher is on its way back up, between target depth and base
C25_Witness ==
  /\ op = "CrushingHazard.update"
  /\ \E k \in 1..Len(crushing_hazards) :
       /\ crushing_hazards[k].state = "RETURNING"
       /\ crushing_hazards[k].base_rect.y < crushing_hazards[k].rect.y
       /\ crushing_hazards[k].rect.y < crushing_hazards[k].target_y
  /\ \E k \in 1..Len(crushing_hazards) :
       /\ crushing_hazards[k].state = "IDLE"
       /\ -100 < centerx(arg.player_rect) - centerx(crushing_hazards[k].rect)
       /\ centerx(arg.player_rect) - centerx(crushing_hazards[k].rect) < 100

\* C26: once a crusher is SLAMMING, if frames keep being processed it
\* eventually reaches its target depth (and turns to RETURNING), and a
\* RETURNING crusher eventually is back at its base position and IDLE,
\* wherever the player is in the meantime.
C26_CrusherCompletesCycle ==
  \A k \in 1..2 :
    /\ (k <= Len(crushing_hazards) /\ crushing_hazards[k].state = "SLAMMING")
         ~> (/\ crushing_hazards[k].state = "RETURNING"
             /\ crushing_hazards[k].rect.y = crushing_hazards[k].target_y)
    /\ (k <= Len(crushing_hazards) /\ crushing_hazards[k].state = "RETURNING")
         ~> (/\ crushing_hazards[k].state = "IDLE"
             /\ crushing_hazards[k].rect = crushing_hazards[k].base_rect)

\* a crusher has just hit its target depth while the player is away from it
C26_Witness ==
  /\ op = "CrushingHazard.update"
  /\ \E k \in 1..Len(crushing_hazards) :
       /\ crushing_hazards[k].state = "RETURNING"
       /\ crushing_hazards[k].rect.y = crushing_hazards[k].target_y
       /\ centerx(crushing_hazards[k].rect) - centerx(arg.player_rect) >= 100

\* C27: an update of an active chaser moves pos.x toward the player's
\* horizontal centre by at most speed*dt and never past it: the distance
\* to the centre does not increase (and decreases unless already there),
\* the chaser does not end on the other side of the centre, and pos.y does
\* not change.  Positions are in tenths of a pixel, speed*dt in thousandths.
C27_ChaserApproaches ==
  [][ op' = "ChasingHazard.update" =>
        \A k \in 1..Len(chasers) :
          LET c == chasers[k]
              d == chasers'[k]
              target == centerx(arg'.player_rect) * 10
              before == target - c.pos[1]
              after == target - d.pos[1]
              moved == d.pos[1] - c.pos[1]
          IN  /\ d.pos[2] = c.pos[2]
              /\ ~d.is_active => d.pos = c.pos
              /\ d.is_active =>
                   /\ 100 * moved <= c.speed * arg'.dt
                   /\ -100 * moved <= c.speed * arg'.dt
                   /\ before > 0 => (moved > 0 /\ after >= 0 /\ after < before)
                   /\ before < 0 => (moved < 0 /\ after <= 0 /\ after > before)
                   /\ before = 0 => moved = 0 ]_vars

\* an active chaser has arrived exactly at the player's centre, which was
\* less than one step away
C27_Witness ==
  /\ op = "ChasingHazard.update"
  /\ \E k \in 1..Len(chasers) :
       /\ chasers[k].is_active
       /\ chasers[k].pos[1] = centerx(arg.player_rect) * 10
       /\ chasers[k].pos[1] % 100 = 70

\* the interior of h overlaps the box with the given left, top, right and
\* bottom edges
OverlapsBox(h, l, t, r, b) ==
  h.x < r /\ l < h.x + h.w /\ h.y < b /\ t < h.y + h.h

\* h overlaps rect with 4 px taken off every side
OverlapsShrunk(h, rect) ==
  OverlapsBox(h, rect.x + 4, rect.y + 4, rect.x + rect.w - 4, rect.y + rect.h - 4)

\* h overlaps rect as it is
OverlapsRaw(h, rect) ==
  OverlapsBox(h, rect.x, rect.y, rect.x + rect.w, rect.y + rect.h)

\* C28: for oscillators, swinging axes, active trigger spikes and active
\* chasers, collides(rect) is true iff the hazard's current rectangle
\* intersects rect shrunk by 4 px on every side; for a crusher, in any of
\* its states, iff its current rectangle intersects rect itself.
C28_GenerousHitbox ==
  op = "collides" =>
    /\ \A k \in 1..Len(oscillators) :
         result.oscillators[k] <=> OverlapsShrunk(oscillators[k].rect, arg)
    /\ \A k \in 1..Len(swing_axes) :
         result.swing_axes[k] <=> OverlapsShrunk(swing_axes[k].rect, arg)
    /\ \A k \in 1..Len(trigger_spikes) :
         trigger_spikes[k].active =>
           (result.trigger_spikes[k] <=> OverlapsShrunk(trigger_spikes[k].rect, arg))
    /\ \A k \in 1..Len(chasers) :
         chasers[k].is_active =>
           (result.chasers[k] <=> OverlapsShrunk(chasers[k].rect, arg))
    /\ \A k \in 1..Len(crushing_hazards) :
         result.crushing_hazards[k] <=> OverlapsRaw(crushing_hazards[k].rect, arg)

\* a crusher that has left IDLE hits a rectangle that reaches less than 4 px
\* into it, while an active spike and an active chaser are asked too
C28_Witness ==
  /\ op = "collides"
  /\ \E k \in 1..Len(crushing_hazards) :
       /\ crushing_hazards[k].state # "IDLE"
       /\ result.crushing_hazards[k]
       /\ ~OverlapsShrunk(crushing_hazards[k].rect, arg)
  /\ \E k \in 1..Len(trigger_spikes) : trigger_spikes[k].active
  /\ \E k \in 1..Len(chasers) : chasers[k].is_active /\ chasers[k].rect.y # 0

\* C29: a trigger spike that has not been activated hits no rectangle (and
\* waits at hidden_y); an update never increases rect.y; and rect.y is
\* always between target_y and hidden_y.
C29_SpikeRisesOnce ==
  [][ /\ \A i \in 1..Len(trigger_spikes) :
           LET s == trigger_spikes[i]
               u == trigger_spikes'[i]
           IN  /\ s.target_y <= s.rect.y /\ s.rect.y <= s.hidden_y
               /\ u.target_y <= u.rect.y /\ u.rect.y <= u.hidden_y
               /\ ~s.active => s.rect.y = s.hidden_y
               /\ ~u.active => u.rect.y = u.hidden_y
               /\ op' = "TriggerSpike.update" =>
                    /\ u.rect.y <= s.rect.y
                    /\ u.target_y = s.target_y /\ u.hidden_y = s.hidden_y
      /\ (op' = "TriggerSpike.collides" /\ ~trigger_spikes[arg'.i].active) =>
           result' = FALSE ]_vars

\* a hidden spike is asked about a rectangle lying over it and says no,
\* while another spike is part of the way up
C29_Witness ==
  /\ op = "TriggerSpike.collides"
  /\ ~trigger_spikes[arg.i].active
  /\ colliderect(trigger_spikes[arg.i].rect, inflate(arg.rect, -8, -8))
  /\ result = FALSE
  /\ \E j \in 1..Len(trigger_spikes) :
       /\ trigger_spikes[j].active
       /\ trigger_spikes[j].target_y < trigger_spikes[j].rect.y
       /\ trigger_spikes[j].rect.y < trigger_spikes[j].hidden_y

\* C30: in the frame in which a disappearing platform's trigger is first
\* touched (is_removed turns true), the physics step has run against a
\* platform list that still holds the platform, so the player's rectangle,
\* which touches the trigger, has been pushed out of the platform; the
\* platform leaves the list in that same frame, and the physics step of
\* every frame that starts with is_removed true runs without it.
C30_PlatformSolidInTriggerFrame ==
  [][ PlayFrame =>
        \A k \in 1..Len(disappearing_platforms) :
          LET dp == disappearing_platforms[k]
              dq == disappearing_platforms'[k]
              plat == dp.target_platform_rect
          IN  /\ ~dp.is_removed => InSeq(plat, platforms)
              /\ dp.is_removed => ~InSeq(plat, platforms)
              /\ (~dp.is_removed /\ dq.is_removed) =>
                   /\ colliderect(player'.rect, dp.trigger_rect)
                   /\ ~colliderect(player'.rect, plat)
                   /\ ~InSeq(plat, platforms') ]_vars

\* the player has landed on the platform in the very frame that removed it
C30_Witness ==
  /\ op = "Game.update"
  /\ player.on_ground
  /\ \E k \in 1..Len(disappearing_platforms) :
       /\ disappearing_platforms[k].is_removed
       /\ ~InSeq(disappearing_platforms[k].target_platform_rect, platforms)
       /\ colliderect(player.rect, disappearing_platforms[k].trigger_rect)
       /\ bottom(player.rect) = top(disappearing_platforms[k].target_platform_rect)
       /\ left(player.rect) < right(disappearing_platforms[k].target_platform_rect)
       /\ left(disappearing_platforms[k].target_platform_rect) < right(player.rect)

\* a jump request made in the air with no air jump left is waiting: the
\* player is airborne, jumps_left is 0 and the request has been served by
\* no impulse
BufferedInAir ==
  /\ ~player.on_ground
  /\ player.jumps_left = 0
  /\ since_request < JUMP_BUFFER_TIME

\* C31: with such a request waiting, the update in which the player lands
\* fires the full-force jump (no new jump() call) if the frame time since
\* the request, this update's included, is less than JUMP_BUFFER_TIME;
\* otherwise, and whenever an airborne player with no air jump left lands
\* with no request younger than that, the landing update fires no jump.
C31_BufferedJumpOnLanding ==
  [][ \A dt \in FrameTimes :
        ( /\ ~player.on_ground /\ player.jumps_left = 0
          /\ op' = "update" /\ landed'
          /\ PlayerUpdate(FALSE, TRUE, dt) ) =>
            IF since_request + dt < JUMP_BUFFER_TIME
              THEN FullJumpFired
              ELSE /\ result' = FALSE
                   /\ player'.on_ground
                   /\ player'.vel.y = 0 ]_vars

\* a request made in the air with no jump left has waited through an update
\* and the player is one 50 ms frame from landing, where the jump fires
C31_Witness ==
  /\ op = "update" /\ result = FALSE
  /\ BufferedInAir
  /\ since_request > 0
  /\ \E u \in {update(handle_input(player, FALSE, TRUE), 50, platforms, level_length)} :
       u.landed /\ u.ret /\ u.p.vel.y = JUMP_FORCE

\* C32: a Game.update in a state other than PLAYING (LOGIN, MAP_MENU,
\* DIALOGUE, DEATH_MENU, VICTORY) leaves the player's position and
\* velocity, every hazard, the platform list, the attempt counter and the
\* camera as they were.
C32_PhysicsOnlyWhilePlaying ==
  [][ (state # "PLAYING" /\ op' = "Game.update") =>
        /\ player'.rect = player.rect /\ player'.vel = player.vel
        /\ UNCHANGED << oscillators, trigger_spikes, swing_axes, chasers,
                        disappearing_platforms, crushing_hazards, platforms,
                        current_attempts, camera_x, clock >> ]_vars

\* a frame has passed in the death menu, with hazards that have moved
C32_Witness ==
  /\ op = "Game.update" /\ state = "DEATH_MENU"
  /\ arg = [expired |-> TRUE]
  /\ clock > 0 /\ current_attempts > 20

\* the player stands at rest on a platform: grounded, not moving, its
\* bottom edge on the top edge of a platform under it, no jump requested
StandingAtRest ==
  /\ player.on_ground
  /\ player.vel.y = 0
  /\ player.jump_buffer_timer = 0
  /\ \E k \in 1..Len(platforms) :
       /\ bottom(player.rect) = top(platforms[k])
       /\ left(player.rect) < right(platforms[k])
       /\ left(platforms[k]) < right(player.rect)

\* C33: a Player.update with no key held, made on a player standing at rest
\* on a platform, ends with on_ground true and the rectangle where it was.
C33_StandingStaysGrounded ==
  [][ \A dt \in SteadyFrameTimes :
        ( /\ StandingAtRest
          /\ op' = "update"
          /\ PlayerUpdate(FALSE, FALSE, dt) ) =>
            /\ player'.on_ground
            /\ player'.rect = player.rect ]_vars

\* C34: one Player.update moves the player's rectangle horizontally by at
\* most PLAYER_SPEED pixels, from any state of play, the one right after
\* Player.reset at the spawn point included.
C34_NoHorizontalTeleport ==
  [][ op' = "update" =>
        /\ player'.rect.x - player.rect.x <= int10(PLAYER_SPEED)
        /\ player.rect.x - player'.rect.x <= int10(PLAYER_SPEED) ]_vars

\* C35: after every Player.update the player's rectangle intersects no
\* rectangle of the platform list.
C35_NoResidualPenetration ==
  op = "update" =>
    \A k \in 1..Len(platforms) : ~colliderect(player.rect, platforms[k])

\* the last update pushed the player out of a platform it had risen into:
\* its top edge is on the platform's bottom edge and it has been stopped
C35_Witness ==
  /\ op = "update" /\ ~landed
  /\ player.vel.y = 0
  /\ \E k \in 1..Len(platforms) :
       /\ top(player.rect) = bottom(platforms[k])
       /\ left(player.rect) < right(platforms[k])
       /\ left(platforms[k]) < right(player.rect)

\* C36: once a full-force jump has fired (full_jumps counts them since the
\* last landing), an update in which the player does not land leaves the
\* coyote timer at 0 and any impulse it fires is the reduced air jump.
C36_OneFullJumpPerFlight ==
  [][ (op' = "update" /\ full_jumps >= 1 /\ ~landed') =>
        /\ player.coyote_timer = 0
        /\ player'.coyote_timer = 0
        /\ result' = TRUE => player'.vel.y = AIR_JUMP_FORCE
        /\ full_jumps' = 1 ]_vars

\* an air jump has just fired in the flight of a full jump, at least two
\* updates after it
C36_Witness ==
  /\ op = "update" /\ result = TRUE /\ ~landed
  /\ player.vel.y = AIR_JUMP_FORCE
  /\ full_jumps = 1 /\ air_jumps = 1
  /\ since_ground >= 100

\* C37: between two landings at most two jump impulses fire, full-force and
\* air jumps counted together (full_jumps and air_jumps count them since
\* the last landing), and jumps_left is 0, 1 or 2.
C37_TwoImpulsesPerFlight ==
  /\ full_jumps + air_jumps <= 2
  /\ player.jumps_left \in {0, 1, 2}

\* two air jumps have fired in a flight that began by walking off a
\* platform, and a third request is waiting
C37_Witness ==
  /\ full_jumps = 0 /\ air_jumps = 2
  /\ player.jumps_left = 0 /\ ~player.on_ground
  /\ op = "update" /\ result = FALSE
  /\ player.jump_buffer_timer > 0

\* seq is sub with some elements taken out, the order kept
RECURSIVE IsSubsequence(_, _)
IsSubsequence(sub, seq) ==
  IF sub = << >> THEN TRUE
  ELSE IF seq = << >> THEN FALSE
  ELSE IF Head(sub) = Head(seq) THEN IsSubsequence(Tail(sub), Tail(seq))
  ELSE IsSubsequence(sub, Tail(seq))

\* C38: an update_hazards never adds to the platform list; a rectangle it
\* takes out is the target of a disappearing platform whose trigger has
\* fired; and with the player outside every trigger zone that has not
\* fired the list is unchanged.
C38_PlatformsOnlyShrinkByTrigger ==
  [][ /\ op' \notin {"load_level", "reload_level", "advance_level"} =>
           IsSubsequence(platforms', platforms)
      /\ op' = "update_hazards" =>
        /\ \A j \in 1..Len(platforms) :
             ~InSeq(platforms[j], platforms') =>
               \E k \in 1..Len(disappearing_platforms) :
                 /\ disappearing_platforms'[k].is_removed
                 /\ disappearing_platforms[k].target_platform_rect = platforms[j]
        /\ (\A k \in 1..Len(disappearing_platforms) :
              \/ disappearing_platforms[k].is_removed
              \/ ~colliderect(arg'.player_rect, disappearing_platforms[k].trigger_rect))
             => platforms' = platforms ]_vars

\* an update made with the player in the trigger zone, after which the
\* target is out of the list and the list is one shorter than it was loaded
C38_Witness ==
  /\ op = "update_hazards"
  /\ \E k \in 1..Len(disappearing_platforms) :
       /\ disappearing_platforms[k].is_removed
       /\ colliderect(arg.player_rect, disappearing_platforms[k].trigger_rect)
       /\ ~InSeq(disappearing_platforms[k].target_platform_rect, platforms)
  /\ Len(platforms) + 1 = Len(InitialLevel.platforms)

\* the step is handle_events with the event named
Clicked(name) == op' = "Game.handle_events" /\ arg' = name

\* the edge s -> t of the game modes, with what the claim says of it
ModeEdge(s, t) ==
  CASE s = "LOGIN" /\ t = "MAP_MENU" ->
         Clicked("login") /\ current_user'.present
    [] s = "MAP_MENU" /\ t = "PLAYING" ->
         /\ Clicked("select_level")
         /\ \E i \in 1..(TOTAL_LEVELS + 1) :
              is_level_unlocked(i) /\ current_level_index' = resolve_index(i - 1)
    [] s = "MAP_MENU" /\ t = "LOGIN" -> Clicked("delete_account")
    [] s = "PLAYING" /\ t \in {"DIALOGUE", "DEATH_MENU", "VICTORY"} ->
         op' = "Game.update"
    [] s = "PLAYING" /\ t = "MAP_MENU" -> Clicked("escape")
    [] s = "DIALOGUE" /\ t = "PLAYING" -> Clicked("key") /\ ~dialogue.locked
    [] s \in {"DEATH_MENU", "VICTORY"} /\ t \in {"PLAYING", "MAP_MENU"} ->
         op' = "Game.handle_events"
    [] OTHER -> FALSE

\* C39: Game.state changes only along LOGIN -> MAP_MENU (a login that
\* succeeded), MAP_MENU -> PLAYING (an unlocked level selected) or LOGIN
\* (account deletion), PLAYING -> DIALOGUE, DEATH_MENU, VICTORY or MAP_MENU
\* (escape), DIALOGUE -> PLAYING (a key, with the dialogue lock over),
\* DEATH_MENU -> PLAYING or MAP_MENU, VICTORY -> PLAYING or MAP_MENU; and
\* outside LOGIN there is a user logged in.
C39_ModeEdges ==
  [][ /\ state' # state => ModeEdge(state, state')
      /\ state' # "LOGIN" => current_user'.present ]_vars

\* back at the login screen after an account deletion, by a player who has
\* been through the death menu and has finished a level
C39_Witness ==
  /\ state = "LOGIN" /\ ~current_user.present
  /\ op = "Game.handle_events" /\ arg = "delete_account"
  /\ db.deaths.count >= 21
  /\ last_victory.level > 0

\* what the claim asks of level n before play of it is entered from the map
UnlockedOnEntry(n) ==
  \/ n = 1
  \/ n \in 2..TOTAL_LEVELS /\ map_progress[n - 1] > 0
  \/ n = TOTAL_LEVELS + 1 /\ current_user.total_stars >= BOSS_UNLOCK_STARS

C40_BossWitness ==
  /\ state = "PLAYING" /\ level_id = TOTAL_LEVELS + 1
  /\ op = "Game.handle_events" /\ arg = "select_level"

====
